---- MODULE Spec2Model ----
(***************************************************************************)
(* A model of RestoreLayout.restore_layout (save_restore_layout.py) and    *)
(* of the helpers it calls.  One restore is a single synchronous call      *)
(* chain; pc is the position of that call inside restore_layout.           *)
(*                                                                         *)
(* Names are the source's.  Identifiers that the source keeps as strings   *)
(* (footprint ids, sheet names, file names) are small naturals, ordered as *)
(* Python orders the strings; net names are strings.  Angles are degrees,  *)
(* multiples of 90, held normalised to (-180, 180] as the board holds      *)
(* them; positions are integer pairs <<x, y>>.                             *)
(***************************************************************************)
EXTENDS Integers, Sequences, FiniteSets, TLC

VARIABLES
    pc,             \* position inside restore_layout
    err,            \* "" or the kind of the exception that left restore_layout
    inp,            \* the inputs of the call: snapshot, engine version, project
    fps,            \* destination board: footprint ref -> placement state
    groups,         \* names of the groups added to the destination board
    group_items,    \* items put into layout_group
    added,          \* tracks, zones, texts, drawings added to the board, in order
    net_pairs,      \* get_net_pairs: the set of (saved net, destination net)
    net_dict,       \* get_net_pairs: destination net names with a net object
    src_anchor,     \* index (in the sorted saved_fps) of src_anchor_fp
    i,              \* index of the current loop iteration
    placed_from,    \* ref -> index of the saved footprint last replicated on it
    log,            \* the log lines that report a skipped or unhandled element
    out,            \* what the calls outside restore_layout have returned, in order
    board,          \* SaveLayout.board: the items of the copy save_layout works on
    nets_exclusively_on_sheet,  \* SaveLayout.nets_exclusively_on_sheet
    temp_file,      \* whether the file SaveLayout.temp_filename exists
    host_board      \* the items of the board that was passed to SaveLayout

vars == <<pc, err, inp, fps, groups, group_items, added, net_pairs, net_dict,
          src_anchor, i, placed_from, log, out, board, nets_exclusively_on_sheet,
          temp_file, host_board>>

\* the variables of SaveLayout
save_vars == <<board, nets_exclusively_on_sheet, temp_file, host_board>>

----------------------------------------------------------------------------
(* Bounds of the explored inputs. *)

\* most lines of a schematic file
MaxLines == 3

\* largest component of a version, and most components
MaxVer == 1
MaxVerLen == 2
\* copper layer counts range over 1..MaxLayers
MaxLayers == 2
\* coordinates of saved footprints range over -MaxCoord..MaxCoord
MaxCoord == 1
\* most footprints in the snapshot and in the level
MaxFps == 2
\* most pads of a footprint, and the largest pad name
MaxPads == 2
\* most tracks, zones or drawings in the snapshot
MaxItems == 2

----------------------------------------------------------------------------
(* Small helpers on sequences. *)

Min(a, b) == IF a < b THEN a ELSE b

Range(s) == {s[k] : k \in 1..Len(s)}

SeqsUpTo(S, n) == UNION {[1..k -> S] : k \in 0..n}

\* s[a:] of Python, a >= 0
From(s, a) == IF a >= Len(s) THEN <<>> ELSE SubSeq(s, a + 1, Len(s))

\* s[0:b] of Python
Upto(s, b) == SubSeq(s, 1, Min(b, Len(s)))

\* list.index(x): the first position holding x (0 when absent)
IndexOf(s, x) ==
    IF \E k \in 1..Len(s) : s[k] = x
    THEN CHOOSE k \in 1..Len(s) : s[k] = x /\ \A j \in 1..(k - 1) : s[j] # x
    ELSE 0

\* Python's comparison of two lists of naturals: a < b
RECURSIVE ListLess(_, _)
ListLess(a, b) ==
    IF a = <<>> THEN b # <<>>
    ELSE IF b = <<>> THEN FALSE
    ELSE IF Head(a) # Head(b) THEN Head(a) < Head(b)
    ELSE ListLess(Tail(a), Tail(b))

----------------------------------------------------------------------------
(* rotate_around_center, rotate_around_point, flipped_angle.               *)
(* Angles are multiples of 90 degrees, where cos and sin are -1, 0 or 1;   *)
(* the coordinates are then integers and int() leaves them as they are.    *)

Cos(angle) == CASE angle % 360 = 0 -> 1
                [] angle % 360 = 90 -> 0
                [] angle % 360 = 180 -> -1
                [] angle % 360 = 270 -> 0

Sin(angle) == CASE angle % 360 = 0 -> 0
                [] angle % 360 = 90 -> 1
                [] angle % 360 = 180 -> 0
                [] angle % 360 = 270 -> -1

rotate_around_center(coordinates, angle) ==
    << coordinates[1] * Cos(angle) - coordinates[2] * Sin(angle),
       coordinates[1] * Sin(angle) + coordinates[2] * Cos(angle) >>

rotate_around_point(old_position, point, angle) ==
    LET rel == <<old_position[1] - point[1], old_position[2] - point[2]>>
        new_rel == rotate_around_center(rel, angle)
    IN  <<new_rel[1] + point[1], new_rel[2] + point[2]>>

flipped_angle(angle) == IF angle > 0 THEN 180 - angle ELSE -180 - angle

\* the board keeps an orientation normalised to (-180, 180]
Normalize180(angle) == IF angle % 360 > 180 THEN (angle % 360) - 360 ELSE angle % 360

VecAdd(a, b) == <<a[1] + b[1], a[2] + b[2]>>
VecSub(a, b) == <<a[1] - b[1], a[2] - b[2]>>

----------------------------------------------------------------------------
(* get_sch_hash.  A schematic file is a sequence of characters.  "R" stands *)
(* for the text (property "Reference" and "I" for the text (instances, each *)
(* taken as one character; "(" ")" " " and the newline are themselves, any  *)
(* other character is content.  md5 is taken to be injective: the digest of *)
(* a line is the line, the digest of a sequence of updates is the sequence. *)
(* Indices are Python's, from 0.                                           *)

NL == "\n"

\* s[a:b] of Python for 0 <= a, 0 <= b
Slice(s, a, b) == IF a >= Min(b, Len(s)) THEN <<>> ELSE SubSeq(s, a + 1, Min(b, Len(s)))

\* str.split("\n")
RECURSIVE SplitFrom(_, _, _)
SplitFrom(s, k, cur) ==
    IF k > Len(s) THEN <<cur>>
    ELSE IF s[k] = NL THEN <<cur>> \o SplitFrom(s, k + 1, <<>>)
    ELSE SplitFrom(s, k + 1, Append(cur, s[k]))

Split(s) == SplitFrom(s, 1, <<>>)

\* "\n".join(lines)
RECURSIVE Join(_)
Join(lines) ==
    IF lines = <<>> THEN <<>>
    ELSE IF Len(lines) = 1 THEN lines[1]
    ELSE lines[1] \o <<NL>> \o Join(Tail(lines))

\* lines 74-80 with no line dropped
without_references_kept(file_contents) == file_contents

\* lines 74-80: drop every line that holds (property "Reference"
without_references(file_contents) ==
    Join(SelectSeq(Split(file_contents), LAMBDA c : "R" \notin Range(c)))

\* find_all(string, "(instances"), ascending
RECURSIVE find_all_from(_, _)
find_all_from(string, k) ==
    IF k > Len(string) THEN <<>>
    ELSE IF string[k] = "I" THEN <<k - 1>> \o find_all_from(string, k + 1)
    ELSE find_all_from(string, k + 1)

find_all(string) == find_all_from(string, 1)

\* lines 88-99: the index after the parenthesis closing the block that starts
\* at instance_start; -1 when the scan runs off the string (IndexError)
RECURSIVE scan_block(_, _, _)
scan_block(string, current_index, number_of_parentheses) ==
    IF number_of_parentheses = 0 THEN current_index
    ELSE IF current_index >= Len(string) THEN -1
    ELSE LET a == string[current_index + 1]
             n == IF a \in {"(", "I"} THEN number_of_parentheses + 1
                  ELSE IF a = ")" THEN number_of_parentheses - 1
                  ELSE number_of_parentheses
         IN  scan_block(string, current_index + 1, n)

instance_end_of(string, instance_start) == scan_block(string, instance_start + 1, 1)

\* lines 83-106: the text with the instances blocks cut out, as the loop builds
\* it; acc is <<filtered_contents, instance_end_old>>
RECURSIVE remove_instances(_, _, _)
remove_instances(string, starts, acc) ==
    IF starts = <<>> THEN acc[1] \o Slice(string, acc[2], Len(string) - 1)
    ELSE LET instance_end == instance_end_of(string, Head(starts))
         IN  remove_instances(string, Tail(starts),
                 <<acc[1] \o Slice(string, acc[2], Head(starts)), instance_end>>)

filtered_contents(file_contents) ==
    LET string == without_references(file_contents)
    IN  remove_instances(string, find_all(string), <<<<>>, 0>>)

\* the while loop at line 92 indexes past the end of the text
hash_raises(file_contents) ==
    LET string == without_references(file_contents)
    IN  \E k \in Range(find_all(string)) : instance_end_of(string, k) = -1

\* the order of the hexdigests of two lines: any fixed total order
Code(c) == CASE c = " " -> 0 [] c = "(" -> 1 [] c = ")" -> 2 [] c = "I" -> 3
             [] c = "R" -> 4 [] c = "a" -> 5 [] c = "b" -> 6 [] OTHER -> 7

Codes(line) == [k \in 1..Len(line) |-> Code(line[k])]

\* list.sort() of the digests
RECURSIVE InsertLine(_, _)
InsertLine(sorted, line) ==
    IF sorted = <<>> THEN <<line>>
    ELSE IF ListLess(Codes(line), Codes(Head(sorted))) THEN <<line>> \o sorted
    ELSE <<Head(sorted)>> \o InsertLine(Tail(sorted), line)

RECURSIVE SortLines(_)
SortLines(lines) ==
    IF lines = <<>> THEN <<>> ELSE InsertLine(SortLines(Tail(lines)), Head(lines))

\* line 109: the digests of the lines that are not blank
hash_lines(file_contents) ==
    SelectSeq(Split(filtered_contents(file_contents)),
              LAMBDA line : \E k \in 1..Len(line) : line[k] # " ")

\* get_sch_hash(sch_file, md5hash): md5hash updated with the sorted digests
get_sch_hash(file_contents, md5hash) == md5hash \o SortLines(hash_lines(file_contents))

\* lines 490-495 and 855-860: the hexdigest over a list of files
RECURSIVE hash_files(_, _)
hash_files(list_of_contents, md5hash) ==
    IF list_of_contents = <<>> THEN md5hash
    ELSE hash_files(Tail(list_of_contents), get_sch_hash(Head(list_of_contents), md5hash))

hex_hash_of(list_of_contents) == hash_files(list_of_contents, <<>>)

\* semver_compare(ver_1, ver_2) on the versions split at the dots
RECURSIVE semver_from(_, _, _)
semver_from(ver_1_list, ver_2_list, k) ==
    IF k > Min(Len(ver_1_list), Len(ver_2_list)) THEN TRUE
    ELSE IF ver_2_list[k] > ver_1_list[k] THEN FALSE
    ELSE IF ver_2_list[k] < ver_1_list[k] THEN TRUE
    ELSE semver_from(ver_1_list, ver_2_list, k + 1)

\* semver_compare with its two versions taken in the other order
semver_compare_swapped(ver_1, ver_2) == semver_from(ver_2, ver_1, 1)

semver_compare(ver_1, ver_2) == semver_from(ver_1, ver_2, 1)

----------------------------------------------------------------------------
(* The footprints of the two boards.  A Footprint is the namedtuple of     *)
(* line 36 with the state of its fp: ref, fp_id, sheet_id, filename, pos,  *)
(* rot, flipped, pads (a sequence of [name, net]), ntext (the number of    *)
(* its text items) and settings (its local clearance and margins).         *)

\* dst_anchor_fp: get_fp_by_ref(dst_anchor_fp_ref), the first with that ref
dst_anchor_fp ==
    inp.dst_fps[CHOOSE k \in 1..Len(inp.dst_fps) :
                    /\ inp.dst_fps[k].ref = inp.dst_anchor_fp_ref
                    /\ \A j \in 1..(k - 1) : inp.dst_fps[j].ref # inp.dst_anchor_fp_ref]

\* lines 843-846
level_index == IndexOf(dst_anchor_fp.filename, inp.level) - 1

level == Upto(dst_anchor_fp.sheet_id, level_index + 1)

destination_level_filename == Upto(dst_anchor_fp.filename, level_index + 1)

\* line 850 without the slice: every file of the anchor's chain
list_of_sheet_files_unsliced == dst_anchor_fp.filename

\* line 850
list_of_sheet_files == From(dst_anchor_fp.filename, Len(destination_level_filename) - 1)

\* get_footprints_on_sheet(level)
get_footprints_on_sheet(lvl) ==
    SelectSeq(inp.dst_fps, LAMBDA fp : lvl = Upto(fp.sheet_id, Len(lvl)))

\* the key of lines 896-897: (fp_id, sheet_id)
KeyLess(a, b) ==
    \/ a.fp_id < b.fp_id
    \/ a.fp_id = b.fp_id /\ ListLess(a.sheet_id, b.sheet_id)

\* sorted(..., key=...): stable
RECURSIVE InsertFp(_, _)
InsertFp(sorted, x) ==
    IF sorted = <<>> THEN <<x>>
    ELSE IF KeyLess(x, Head(sorted)) THEN <<x>> \o sorted
    ELSE <<Head(sorted)>> \o InsertFp(Tail(sorted), x)

RECURSIVE SortFps(_)
SortFps(s) ==
    IF s = <<>> THEN <<>>
    ELSE InsertFp(SortFps(SubSeq(s, 1, Len(s) - 1)), s[Len(s)])

footprints_to_place == SortFps(get_footprints_on_sheet(level))

saved_fps == SortFps(inp.saved_fps)

\* the first position of the largest score: list.index(max(...)), and
\* max(list, key=...) which keeps the first of equal items
FirstMax(scores) ==
    CHOOSE k \in 1..Len(scores) :
        /\ \A j \in 1..Len(scores) : scores[j] <= scores[k]
        /\ \A j \in 1..(k - 1) : scores[j] < scores[k]

----------------------------------------------------------------------------
(* get_net_pairs *)

\* lines 964-973: the destination footprints appended to the entry of s_fp
fp_matches(s_fp, dst_list) == SelectSeq(dst_list, LAMBDA d_fp : d_fp.fp_id = s_fp.fp_id)

\* line 986
match_len(s_fp, cands) ==
    [k \in 1..Len(cands) |-> Cardinality(Range(s_fp.sheet_id) \cap Range(cands[k].sheet_id))]

\* lines 977-993: the destination footprint paired with s_fp
fp_pair(s_fp, dst_list) ==
    LET cands == fp_matches(s_fp, dst_list)
    IN  IF Len(cands) > 1 THEN cands[FirstMax(match_len(s_fp, cands))] ELSE cands[1]

\* lines 995-997
no_matching_footprint(src_list, dst_list) ==
    \E k \in 1..Len(src_list) : Len(fp_matches(src_list[k], dst_list)) = 0

\* lines 1017-1018 and 1042-1043: sort by pad name, stable
RECURSIVE InsertPad(_, _)
InsertPad(sorted, x) ==
    IF sorted = <<>> THEN <<x>>
    ELSE IF x.name < Head(sorted).name THEN <<x>> \o sorted
    ELSE <<Head(sorted)>> \o InsertPad(Tail(sorted), x)

RECURSIVE SortPads(_)
SortPads(s) ==
    IF s = <<>> THEN <<>>
    ELSE InsertPad(SortPads(SubSeq(s, 1, Len(s) - 1)), s[Len(s)])

\* get_index_of_tuple(s_nets, 1, value)
get_index_of_tuple(s_nets, value) ==
    CHOOSE pos \in 1..Len(s_nets) :
        s_nets[pos].net = value /\ \A j \in 1..(pos - 1) : s_nets[j].net # value

\* lines 1045-1047 for one footprint pair: d_nets[index] does not exist
pad_index_error(s_fp, d_fp) ==
    LET s_nets == SortPads(s_fp.pads)
        d_nets == SortPads(d_fp.pads)
    IN  \E k \in 1..Len(s_nets) : get_index_of_tuple(s_nets, s_nets[k].net) > Len(d_nets)

\* lines 1045-1047 for one footprint pair: the net tuples appended
pair_net_pairs(s_fp, d_fp) ==
    LET s_nets == SortPads(s_fp.pads)
        d_nets == SortPads(d_fp.pads)
    IN  { <<s_nets[get_index_of_tuple(s_nets, s_nets[k].net)].net,
            d_nets[get_index_of_tuple(s_nets, s_nets[k].net)].net>> : k \in 1..Len(s_nets) }

\* net_pairs before line 1050
all_net_pairs(src_list, dst_list) ==
    UNION { pair_net_pairs(src_list[k], fp_pair(src_list[k], dst_list)) : k \in 1..Len(src_list) }

\* line 1038
all_net_dict(src_list, dst_list) ==
    UNION { {pad.net : pad \in Range(fp_pair(src_list[k], dst_list).pads)} : k \in 1..Len(src_list) }

\* list(set(net_pairs)): the pairs in an order the set's hashing decides
Orderings(S) == {s \in [1..Cardinality(S) -> S] : Range(s) = S}

\* line 1229 without its filter: every net pair, whatever the net name
tup_of_unfiltered(from_net_name) == net_pairs

\* [item for item in net_pairs if item[0] == from_net_name]
tup_of(from_net_name) == SelectSeq(net_pairs, LAMBDA item : item[1] = from_net_name)

----------------------------------------------------------------------------
(* restore_layout, step by step. *)

Raise(kind) == pc' = "error" /\ err' = kind

\* the loops of lines 936-952, in order, and the length of each
NextLoop(p) == CASE p = "replicate_footprints" -> "replicate_tracks"
                 [] p = "replicate_tracks" -> "replicate_zones"
                 [] p = "replicate_zones" -> "replicate_text"
                 [] p = "replicate_text" -> "replicate_drawings"
                 [] p = "replicate_drawings" -> "done"

LoopLen(p) == CASE p = "replicate_footprints" -> Len(saved_fps)
                [] p = "replicate_tracks" -> Len(inp.tracks)
                [] p = "replicate_zones" -> Len(inp.zones)
                [] p = "replicate_text" -> inp.texts
                [] p = "replicate_drawings" -> Len(inp.drawings)
                [] p = "done" -> 1

RECURSIVE Enter(_)
Enter(p) == IF LoopLen(p) > 0 THEN p ELSE Enter(NextLoop(p))

\* the end of one iteration: the next one, or the next loop that has items
Iterate ==
    IF i < LoopLen(pc) THEN pc' = pc /\ i' = i + 1
    ELSE pc' = Enter(NextLoop(pc)) /\ i' = 1

\* lines 816-818
CheckVersion ==
    /\ pc = "check_version"
    /\ UNCHANGED <<out, save_vars>>
    /\ IF semver_compare(inp.VERSION, inp.version) = FALSE
       THEN Raise("LookupError: newer version")
       ELSE pc' = "check_layer_count" /\ err' = err
    /\ UNCHANGED <<inp, fps, groups, group_items, added, net_pairs, net_dict,
                   src_anchor, i, placed_from, log>>

\* lines 820-825
CheckLayerCount ==
    /\ pc = "check_layer_count"
    /\ UNCHANGED <<out, save_vars>>
    /\ IF inp.layer_count < inp.dst_layer_count
       THEN Raise("LookupError: less layers")
       ELSE pc' = "find_level" /\ err' = err
    /\ UNCHANGED <<inp, fps, groups, group_items, added, net_pairs, net_dict,
                   src_anchor, i, placed_from, log>>

\* lines 838-841
FindLevel ==
    /\ pc = "find_level"
    /\ UNCHANGED <<out, save_vars>>
    /\ IF inp.level \notin Range(dst_anchor_fp.filename)
       THEN Raise("LookupError: level")
       ELSE pc' = "check_hash" /\ err' = err
    /\ UNCHANGED <<inp, fps, groups, group_items, added, net_pairs, net_dict,
                   src_anchor, i, placed_from, log>>

\* the contents of the files of list_of_sheet_files
contents_of(files) == [k \in 1..Len(files) |-> inp.files[files[k]]]

\* lines 849-869
CheckHash ==
    /\ pc = "check_hash"
    /\ UNCHANGED <<out, save_vars>>
    /\ IF \E c \in Range(contents_of(list_of_sheet_files)) : hash_raises(c)
       THEN Raise("IndexError: get_sch_hash")
       ELSE IF ~(inp.hash = hex_hash_of(contents_of(list_of_sheet_files)))
       THEN Raise("ValueError: hash")
       ELSE pc' = "check_count" /\ err' = err
    /\ UNCHANGED <<inp, fps, groups, group_items, added, net_pairs, net_dict,
                   src_anchor, i, placed_from, log>>

\* lines 886-892
CheckFootprintCount ==
    /\ pc = "check_count"
    /\ UNCHANGED <<out, save_vars>>
    /\ IF Len(get_footprints_on_sheet(level)) # Len(inp.saved_fps)
       THEN Raise("ValueError: footprint count")
       ELSE pc' = "get_net_pairs" /\ err' = err
    /\ UNCHANGED <<inp, fps, groups, group_items, added, net_pairs, net_dict,
                   src_anchor, i, placed_from, log>>

\* lines 894-901 and get_net_pairs
GetNetPairs ==
    /\ pc = "get_net_pairs"
    /\ UNCHANGED <<out, save_vars>>
    /\ IF no_matching_footprint(saved_fps, footprints_to_place)
       THEN /\ Raise("LookupError: no matching footprint")
            /\ UNCHANGED <<net_pairs, net_dict>>
       ELSE IF \E k \in 1..Len(saved_fps) :
                   pad_index_error(saved_fps[k], fp_pair(saved_fps[k], footprints_to_place))
       THEN /\ Raise("IndexError: pads")
            /\ UNCHANGED <<net_pairs, net_dict>>
       ELSE /\ net_pairs' \in Orderings(all_net_pairs(saved_fps, footprints_to_place))
            /\ net_dict' = all_net_dict(saved_fps, footprints_to_place)
            /\ pc' = "create_group"
            /\ err' = err
    /\ UNCHANGED <<inp, fps, groups, group_items, added, src_anchor, i, placed_from, log>>

\* lines 913-916
list_of_possible_anchor_footprints ==
    SelectSeq(saved_fps, LAMBDA fp : fp.fp_id = dst_anchor_fp.fp_id)

\* lines 928-930, 1087-1089: the items of path found in other
path_matches(path, other) == Cardinality({k \in 1..Len(path) : path[k] \in Range(other)})

\* lines 918-934: the saved footprint chosen as src_anchor_fp, as an index of
\* saved_fps
chosen_src_anchor ==
    LET cands == list_of_possible_anchor_footprints
        pick == IF Len(cands) = 1 THEN cands[1]
                ELSE cands[FirstMax([k \in 1..Len(cands) |->
                         path_matches(dst_anchor_fp.sheet_id, cands[k].sheet_id)])]
    IN  IndexOf(saved_fps, pick)

\* lines 903-934
CreateGroup ==
    /\ pc = "create_group"
    /\ UNCHANGED <<out, save_vars>>
    /\ groups' = IF inp.group_name # "" THEN groups \cup {inp.group_name} ELSE groups
    /\ IF Len(list_of_possible_anchor_footprints) = 0
       THEN Raise("ValueError: max of empty sequence") /\ UNCHANGED <<src_anchor, i>>
       ELSE /\ src_anchor' = chosen_src_anchor
            /\ pc' = Enter("replicate_footprints")
            /\ i' = 1
            /\ err' = err
    /\ UNCHANGED <<inp, fps, group_items, added, net_pairs, net_dict, placed_from, log>>

----------------------------------------------------------------------------
(* replicate_footprints: one iteration of the loop of line 1070. *)

\* fp.Flip(centre, False): mirrored about the horizontal axis through centre,
\* moved to the other side, orientation negated
Flip(st, centre) ==
    [st EXCEPT !.pos = <<st.pos[1], 2 * centre[2] - st.pos[2]>>,
               !.flipped = ~st.flipped,
               !.rot = Normalize180(-st.rot)]

\* lines 1073-1097: the destination footprint chosen for src_fp (0: none)
list_of_possible_dst_footprints(src_fp) ==
    SelectSeq(footprints_to_place, LAMBDA d_fp : d_fp.fp_id = src_fp.fp_id)

chosen_dst_fp(src_fp) ==
    LET cands == list_of_possible_dst_footprints(src_fp)
    IN  IF Len(cands) = 1 THEN cands[1]
        ELSE cands[FirstMax([k \in 1..Len(cands) |->
                 path_matches(src_fp.sheet_id, cands[k].sheet_id)])]

\* lines 1104-1125 with the relative position rotated about the board origin
place_footprint_about_origin(st, src_fp, src_anchor_fp, dst_anchor_st) ==
    LET anchor_delta_angle == src_anchor_fp.rot - dst_anchor_st.rot
        src_fp_delta_pos == VecSub(src_fp.pos, src_anchor_fp.pos)
        new_orientation == src_fp.rot - anchor_delta_angle
        old_pos == VecAdd(src_fp_delta_pos, dst_anchor_st.pos)
        new_pos == rotate_around_center(old_pos, anchor_delta_angle)
        moved == [st EXCEPT !.pos = new_pos]
        flipped == IF moved.flipped # src_fp.flipped THEN Flip(moved, moved.pos) ELSE moved
    IN  [flipped EXCEPT !.rot = Normalize180(new_orientation)]

\* lines 1104-1125 with the anchors' angle difference added to the orientation
place_footprint_plus_delta(st, src_fp, src_anchor_fp, dst_anchor_st) ==
    LET anchor_delta_angle == src_anchor_fp.rot - dst_anchor_st.rot
        src_fp_delta_pos == VecSub(src_fp.pos, src_anchor_fp.pos)
        new_orientation == src_fp.rot + anchor_delta_angle
        old_pos == VecAdd(src_fp_delta_pos, dst_anchor_st.pos)
        new_pos == rotate_around_point(old_pos, dst_anchor_st.pos, anchor_delta_angle)
        moved == [st EXCEPT !.pos = new_pos]
        flipped == IF moved.flipped # src_fp.flipped THEN Flip(moved, moved.pos) ELSE moved
    IN  [flipped EXCEPT !.rot = Normalize180(new_orientation)]

\* lines 1104-1125 without the flip of lines 1123-1124
place_footprint_side_kept(st, src_fp, src_anchor_fp, dst_anchor_st) ==
    LET anchor_delta_angle == src_anchor_fp.rot - dst_anchor_st.rot
        src_fp_delta_pos == VecSub(src_fp.pos, src_anchor_fp.pos)
        new_orientation == src_fp.rot - anchor_delta_angle
        old_pos == VecAdd(src_fp_delta_pos, dst_anchor_st.pos)
        new_pos == rotate_around_point(old_pos, dst_anchor_st.pos, anchor_delta_angle)
        moved == [st EXCEPT !.pos = new_pos]
    IN  [moved EXCEPT !.rot = Normalize180(new_orientation)]

\* lines 1104-1125 with the saved position taken as it is, not relative to
\* the saved anchor
place_footprint_absolute(st, src_fp, src_anchor_fp, dst_anchor_st) ==
    LET anchor_delta_angle == src_anchor_fp.rot - dst_anchor_st.rot
        new_orientation == src_fp.rot - anchor_delta_angle
        old_pos == VecAdd(src_fp.pos, dst_anchor_st.pos)
        new_pos == rotate_around_point(old_pos, dst_anchor_st.pos, anchor_delta_angle)
        moved == [st EXCEPT !.pos = new_pos]
        flipped == IF moved.flipped # src_fp.flipped THEN Flip(moved, moved.pos) ELSE moved
    IN  [flipped EXCEPT !.rot = Normalize180(new_orientation)]

\* lines 1104-1125: the non-anchor footprint st placed from src_fp
\* lines 1104-1125 without the test of line 1123: the footprint flipped in
\* every call
place_footprint_always_flipped(st, src_fp, src_anchor_fp, dst_anchor_st) ==
    LET anchor_delta_angle == src_anchor_fp.rot - dst_anchor_st.rot
        src_fp_delta_pos == VecSub(src_fp.pos, src_anchor_fp.pos)
        new_orientation == src_fp.rot - anchor_delta_angle
        old_pos == VecAdd(src_fp_delta_pos, dst_anchor_st.pos)
        new_pos == rotate_around_point(old_pos, dst_anchor_st.pos, anchor_delta_angle)
        moved == [st EXCEPT !.pos = new_pos]
        flipped == Flip(moved, moved.pos)
    IN  [flipped EXCEPT !.rot = Normalize180(new_orientation)]

\* lines 1104-1125: the non-anchor footprint st placed from src_fp
place_footprint(st, src_fp, src_anchor_fp, dst_anchor_st) ==
    LET anchor_delta_angle == src_anchor_fp.rot - dst_anchor_st.rot
        src_fp_delta_pos == VecSub(src_fp.pos, src_anchor_fp.pos)
        new_orientation == src_fp.rot - anchor_delta_angle
        old_pos == VecAdd(src_fp_delta_pos, dst_anchor_st.pos)
        new_pos == rotate_around_point(old_pos, dst_anchor_st.pos, anchor_delta_angle)
        moved == [st EXCEPT !.pos = new_pos]
        flipped == IF moved.flipped # src_fp.flipped THEN Flip(moved, moved.pos) ELSE moved
    IN  [flipped EXCEPT !.rot = Normalize180(new_orientation)]

\* lines 1138-1151 with the relative position of line 1142 taken as it is,
\* its x not negated
mirror_footprint_x_kept(st, src_fp, src_anchor_fp, dst_anchor_st) ==
    LET flipped == Flip(st, dst_anchor_st.pos)
        src_fp_rel_pos == VecSub(src_anchor_fp.pos, src_fp.pos)
        delta_angle == dst_anchor_st.rot + src_anchor_fp.rot
        dst_fp_rel_pos_rot == rotate_around_center(<<src_fp_rel_pos[1], src_fp_rel_pos[2]>>,
                                                   -delta_angle)
        dst_fp_rel_pos == VecAdd(dst_anchor_st.pos, dst_fp_rel_pos_rot)
        src_fp_flipped_orientation == flipped_angle(src_fp.rot)
        flipped_delta == flipped_angle(src_anchor_fp.rot) - dst_anchor_st.rot
        new_orientation == src_fp_flipped_orientation - flipped_delta
    IN  [flipped EXCEPT !.pos = dst_fp_rel_pos, !.rot = Normalize180(new_orientation)]

\* lines 1138-1151: the non-anchor footprint st when the anchors' sides differ
mirror_footprint(st, src_fp, src_anchor_fp, dst_anchor_st) ==
    LET flipped == Flip(st, dst_anchor_st.pos)
        src_fp_rel_pos == VecSub(src_anchor_fp.pos, src_fp.pos)
        delta_angle == dst_anchor_st.rot + src_anchor_fp.rot
        dst_fp_rel_pos_rot == rotate_around_center(<<-src_fp_rel_pos[1], src_fp_rel_pos[2]>>,
                                                   -delta_angle)
        dst_fp_rel_pos == VecAdd(dst_anchor_st.pos, dst_fp_rel_pos_rot)
        src_fp_flipped_orientation == flipped_angle(src_fp.rot)
        flipped_delta == flipped_angle(src_anchor_fp.rot) - dst_anchor_st.rot
        new_orientation == src_fp_flipped_orientation - flipped_delta
    IN  [flipped EXCEPT !.pos = dst_fp_rel_pos, !.rot = Normalize180(new_orientation)]

\* lines 1104-1151 without the tests of lines 1120 and 1137 that spare the
\* anchor
replicated_footprint_anchor_too(dst_fp, src_fp, src_anchor_fp, dst_anchor_st) ==
    LET st0 == fps[dst_fp.ref]
        st1 == place_footprint(st0, src_fp, src_anchor_fp, dst_anchor_st)
        st2 == [st1 EXCEPT !.settings = src_fp.settings]
    IN  IF src_anchor_fp.flipped # dst_anchor_st.flipped
        THEN mirror_footprint(st2, src_fp, src_anchor_fp, dst_anchor_st)
        ELSE st2

\* lines 1104-1151: the state of dst_fp after placement, local settings and
\* mirroring
replicated_footprint(dst_fp, src_fp, src_anchor_fp, dst_anchor_st) ==
    LET st0 == fps[dst_fp.ref]
        st1 == IF dst_fp.ref # dst_anchor_fp.ref
               THEN place_footprint(st0, src_fp, src_anchor_fp, dst_anchor_st)
               ELSE st0
        st2 == [st1 EXCEPT !.settings = src_fp.settings]
    IN  IF src_anchor_fp.flipped # dst_anchor_st.flipped /\ dst_anchor_fp # dst_fp
        THEN mirror_footprint(st2, src_fp, src_anchor_fp, dst_anchor_st)
        ELSE st2

ReplicateFootprint ==
    /\ pc = "replicate_footprints"
    /\ UNCHANGED <<out, save_vars>>
    /\ LET src_fp == saved_fps[i]
           src_anchor_fp == saved_fps[src_anchor]
           dst_anchor_st == fps[dst_anchor_fp.ref]
       IN  IF Len(list_of_possible_dst_footprints(src_fp)) = 0
           THEN /\ Raise("LookupError: no destination footprint")
                /\ UNCHANGED <<fps, group_items, placed_from, i>>
           ELSE LET dst_fp == chosen_dst_fp(src_fp)
                    st == replicated_footprint(dst_fp, src_fp, src_anchor_fp, dst_anchor_st)
                IN  IF src_fp.ntext # dst_fp.ntext
                    THEN \* lines 1162-1167, after the footprint was placed
                         /\ fps' = [fps EXCEPT ![dst_fp.ref] = st]
                         /\ placed_from' = [placed_from EXCEPT ![dst_fp.ref] = i]
                         /\ Raise("LookupError: text items")
                         /\ UNCHANGED <<group_items, i>>
                    ELSE \* lines 1169-1204
                         /\ fps' = [fps EXCEPT ![dst_fp.ref] = [st EXCEPT !.text = i]]
                         /\ placed_from' = [placed_from EXCEPT ![dst_fp.ref] = i]
                         /\ group_items' = IF inp.group_name # ""
                                           THEN group_items \cup {<<"footprint", dst_fp.ref>>}
                                           ELSE group_items
                         /\ err' = err
                         /\ Iterate
    /\ UNCHANGED <<inp, groups, added, net_pairs, net_dict, src_anchor, log>>

----------------------------------------------------------------------------
(* replicate_tracks, replicate_zones, replicate_text, replicate_drawings:  *)
(* one iteration of each loop.  An added item is [kind, src, net]: the     *)
(* duplicate of the src-th saved item of that kind, on the net given.      *)

Grouped(item) == IF inp.group_name # "" THEN group_items \cup {item} ELSE group_items

\* lines 1224-1257
ReplicateTrack ==
    /\ pc = "replicate_tracks"
    /\ UNCHANGED <<out, save_vars>>
    /\ LET from_net_name == inp.tracks[i]
           tup == tup_of(from_net_name)
       IN  IF tup = <<>>
           THEN UNCHANGED <<added, group_items>>
           ELSE /\ added' = Append(added, [kind |-> "track", src |-> i, net |-> tup[1][2]])
                /\ group_items' = Grouped(<<"track", i>>)
    /\ Iterate
    /\ UNCHANGED <<err, inp, fps, groups, net_pairs, net_dict, src_anchor, placed_from, log>>

\* lines 1284-1293: the net tuples of a zone
zone_tup(zone) ==
    IF ~zone.copper THEN << <<"", "">> >>
    ELSE IF zone.net # "" THEN tup_of(zone.net)
    ELSE << <<"", "">> >>

\* lines 1277-1336
ReplicateZone ==
    /\ pc = "replicate_zones"
    /\ UNCHANGED <<out, save_vars>>
    /\ LET zone == inp.zones[i]
           tup == zone_tup(zone)
       IN  IF tup = <<>>
           THEN \* lines 1296-1311: logged, then tup[0] of an empty list
                /\ log' = log \cup {<<"unhandled net pair case with zone", i>>}
                /\ Raise("IndexError: zone")
                /\ UNCHANGED <<added, group_items, i>>
           ELSE /\ added' = Append(added, [kind |-> "zone", src |-> i, net |-> tup[1][2]])
                /\ group_items' = Grouped(<<"zone", i>>)
                /\ err' = err
                /\ log' = log
                /\ Iterate
    /\ UNCHANGED <<inp, fps, groups, net_pairs, net_dict, src_anchor, placed_from>>

\* lines 1352-1371
ReplicateText ==
    /\ pc = "replicate_text"
    /\ UNCHANGED <<out, save_vars>>
    /\ added' = Append(added, [kind |-> "text", src |-> i, net |-> ""])
    /\ Iterate
    /\ UNCHANGED <<err, inp, fps, groups, group_items, net_pairs, net_dict, src_anchor,
                   placed_from, log>>

\* lines 1391-1419
ReplicateDrawing ==
    /\ pc = "replicate_drawings"
    /\ UNCHANGED <<out, save_vars>>
    /\ LET drawing == inp.drawings[i]
           tup == tup_of(drawing.net)
       IN  IF drawing.connected /\ tup = <<>>
           THEN \* line 1411: tup[0] of an empty list
                /\ Raise("IndexError: drawing")
                /\ UNCHANGED <<added, group_items, i>>
           ELSE /\ added' = Append(added, [kind |-> "drawing", src |-> i,
                                           net |-> IF drawing.connected THEN tup[1][2] ELSE ""])
                /\ group_items' = Grouped(<<"drawing", i>>)
                /\ err' = err
                /\ Iterate
    /\ UNCHANGED <<inp, fps, groups, net_pairs, net_dict, src_anchor, placed_from, log>>

Next ==
    \/ CheckVersion
    \/ CheckLayerCount
    \/ FindLevel
    \/ CheckHash
    \/ CheckFootprintCount
    \/ GetNetPairs
    \/ CreateGroup
    \/ ReplicateFootprint
    \/ ReplicateTrack
    \/ ReplicateZone
    \/ ReplicateText
    \/ ReplicateDrawing

----------------------------------------------------------------------------
(* The inputs explored.  Base is a restore that succeeds: two footprints   *)
(* of the level and one outside it, a track of a net of the level and one  *)
(* of a foreign net, two zones, a text and two drawings.  Each family      *)
(* varies one part of Base over all its values within the bounds.          *)

Fp(ref, fp_id, sheet_id, filename, pos, rot, flipped, pads, ntext, settings) ==
    [ref |-> ref, fp_id |-> fp_id, sheet_id |-> sheet_id, filename |-> filename,
     pos |-> pos, rot |-> rot, flipped |-> flipped, pads |-> pads, ntext |-> ntext,
     settings |-> settings]

Pad(name, net) == [name |-> name, net |-> net]

\* sample schematic files: plain, with a Reference line, with other content,
\* with an instances block
Plain == <<"a", NL, "(", "b", ")", NL>>
WithReference == <<"a", NL, "R", "x", NL, "(", "b", ")", NL>>
OtherContent == <<"a", NL, "(", "a", ")", NL>>
WithInstances == <<"a", NL, "(", "b", ")", NL, "I", "(", "x", ")", ")", NL>>

Contents == {Plain, WithReference, OtherContent, WithInstances}

Angles == {-90, 0, 90, 180}

Coords == (0 - MaxCoord)..MaxCoord

Versions == UNION {[1..n -> 0..MaxVer] : n \in 1..MaxVerLen}

Base ==
    [VERSION |-> <<1, 0>>, version |-> <<1, 0>>,
     layer_count |-> 1, dst_layer_count |-> 1,
     level |-> 1,
     hash |-> hex_hash_of(<<Plain>>),
     files |-> <<Plain, Plain>>,
     saved_fps |-> << Fp(1, 1, <<2>>, <<1>>, <<0, 0>>, 0, FALSE, <<Pad(1, "N1")>>, 2, 1),
                      Fp(2, 2, <<2>>, <<1>>, <<1, 0>>, 0, FALSE, <<Pad(1, "N1")>>, 2, 2) >>,
     dst_fps |-> << Fp(11, 1, <<2>>, <<1>>, <<2, 1>>, 90, FALSE, <<Pad(1, "M1")>>, 2, 0),
                    Fp(12, 2, <<2>>, <<1>>, <<0, 0>>, 0, FALSE, <<Pad(1, "M1")>>, 2, 0),
                    Fp(13, 1, <<3>>, <<2>>, <<0, 0>>, 0, FALSE, <<Pad(1, "M2")>>, 2, 0) >>,
     dst_anchor_fp_ref |-> 11,
     group_name |-> "group",
     tracks |-> <<"N1", "X">>,
     zones |-> << [copper |-> FALSE, net |-> ""], [copper |-> TRUE, net |-> "N1"] >>,
     texts |-> 1,
     drawings |-> << [connected |-> FALSE, net |-> ""], [connected |-> TRUE, net |-> "N1"] >>]

NoItems == [Base EXCEPT !.tracks = <<>>, !.zones = <<>>, !.texts = 0, !.drawings = <<>>]

\* the snapshot's version against the engine's
VersionInputs ==
    \E v1 \in Versions, v2 \in Versions :
        inp = [NoItems EXCEPT !.VERSION = v1, !.version = v2]

\* the snapshot's copper layer count against the board's
LayerInputs ==
    \E a \in 1..MaxLayers, b \in 1..MaxLayers :
        inp = [NoItems EXCEPT !.layer_count = a, !.dst_layer_count = b]

\* the sheet chain of the level's footprints, the saved level, the files of
\* the project and the hash of the snapshot
Chains == { <<<<2>>, <<1>>>>, <<<<2>>, <<2>>>>, <<<<1, 2>>, <<1, 2>>>>, <<<<1, 2>>, <<2, 1>>>>,
            <<<<1, 2>>, <<1, 1>>>> }

HashInputs ==
    \E lv \in 1..3, c1 \in Contents, c2 \in Contents, ch \in Chains,
       saved \in {<<c>> : c \in Contents} \cup {<<Plain, c>> : c \in Contents} :
        inp = [NoItems EXCEPT
                  !.level = lv,
                  !.files = <<c1, c2>>,
                  !.hash = hex_hash_of(saved),
                  !.dst_fps = << Fp(11, 1, ch[1], ch[2], <<2, 1>>, 90, FALSE, <<Pad(1, "M1")>>, 2, 0),
                                 Fp(12, 2, ch[1], ch[2], <<0, 0>>, 0, FALSE, <<Pad(1, "M1")>>, 2, 0) >>]

\* the footprints of the snapshot against those of the level: the same leaf
\* id in one sheet or in two instances of a sheet, another leaf id
Shapes == { <<1, <<2>>, <<1>>>>, <<2, <<2>>, <<1>>>>, <<1, <<2, 1>>, <<1, 2>>>>,
            <<1, <<2, 3>>, <<1, 2>>>> }

ShapeLists == UNION {[1..n -> Shapes] : n \in 1..MaxFps}

SavedOf(shapes) ==
    [k \in 1..Len(shapes) |->
        Fp(k, shapes[k][1], shapes[k][2], shapes[k][3], <<k, 0>>, 0, FALSE,
           <<Pad(1, "N1")>>, 2, k)]

DstOf(shapes) ==
    [k \in 1..Len(shapes) |->
        Fp(10 + k, shapes[k][1], shapes[k][2], shapes[k][3], <<2, k>>, 90, FALSE,
           <<Pad(1, "M1")>>, 2, 0)]

MatchInputs ==
    \E ss \in ShapeLists, ds \in ShapeLists, g \in {"", "group"} :
        \E a \in 1..Len(ds) :
            inp = [NoItems EXCEPT !.saved_fps = SavedOf(ss), !.dst_fps = DstOf(ds),
                                  !.dst_anchor_fp_ref = 10 + a, !.group_name = g]

\* the pads of a matched pair of footprints: up to MaxPads nets, the pads
\* named in ascending or in descending order
PadLists(nets) ==
    UNION { {[k \in 1..Len(ns) |-> Pad(k, ns[k])],
             [k \in 1..Len(ns) |-> Pad(Len(ns) + 1 - k, ns[k])]} :
                ns \in UNION {[1..n -> nets] : n \in 1..MaxPads} }

PadInputs ==
    \E sp \in PadLists({"N1", "N2"}), dp \in PadLists({"M1", "M2"}) :
        inp = [Base EXCEPT !.saved_fps[1].pads = sp, !.dst_fps[1].pads = dp]

\* the text items of the footprints, with and without a group
TextInputs ==
    \E a \in 2..3, b \in 2..3, c \in 2..3, d \in 2..3, g \in {"", "group"} :
        inp = [Base EXCEPT !.saved_fps[1].ntext = a, !.saved_fps[2].ntext = b,
                           !.dst_fps[1].ntext = c, !.dst_fps[2].ntext = d, !.group_name = g]

\* where the saved anchor lies: away from the destination anchor, or on it
AnchorSpots == { <<1, -1>>, <<2, 1>> }

\* position, orientation and side of the two anchors and of a second footprint
GeomInputs ==
    \E ap \in AnchorSpots, ar \in Angles, af \in BOOLEAN, dr \in Angles, df \in BOOLEAN,
       x \in Coords, y \in Coords, r \in Angles, f \in BOOLEAN, f2 \in BOOLEAN :
        inp = [NoItems EXCEPT
                  !.saved_fps = << Fp(1, 1, <<2>>, <<1>>, ap, ar, af, <<Pad(1, "N1")>>, 2, 1),
                                   Fp(2, 2, <<2>>, <<1>>, <<x, y>>, r, f, <<Pad(1, "N1")>>, 2, 2) >>,
                  !.dst_fps = << Fp(11, 1, <<2>>, <<1>>, <<2, 1>>, dr, df, <<Pad(1, "M1")>>, 2, 0),
                                 Fp(12, 2, <<2>>, <<1>>, <<0, 0>>, 0, f2, <<Pad(1, "M1")>>, 2, 0) >>]

\* the tracks, zones, texts and drawings of the snapshot
ItemNets == {"", "N1", "X"}

ItemInputs ==
    \E g \in {"", "group"}, n \in 0..1 :
        \/ \E t \in SeqsUpTo(ItemNets, MaxItems) :
               inp = [Base EXCEPT !.tracks = t, !.group_name = g, !.texts = n]
        \/ \E z \in SeqsUpTo([copper : BOOLEAN, net : ItemNets], MaxItems) :
               inp = [Base EXCEPT !.zones = z, !.group_name = g, !.texts = n]
        \/ \E d \in SeqsUpTo([connected : BOOLEAN, net : ItemNets], MaxItems) :
               inp = [Base EXCEPT !.drawings = d, !.group_name = g, !.texts = n]

Inputs ==
    \/ inp = Base
    \/ VersionInputs
    \/ LayerInputs
    \/ HashInputs
    \/ MatchInputs
    \/ PadInputs
    \/ TextInputs
    \/ GeomInputs
    \/ ItemInputs

\* the footprints of the destination board as the call finds them
board_footprints ==
    [r \in {inp.dst_fps[k].ref : k \in 1..Len(inp.dst_fps)} |->
        LET fp == inp.dst_fps[CHOOSE k \in 1..Len(inp.dst_fps) : inp.dst_fps[k].ref = r]
        IN  [pos |-> fp.pos, rot |-> fp.rot, flipped |-> fp.flipped,
             settings |-> fp.settings, text |-> 0]]

Init ==
    /\ Inputs
    /\ pc = "check_version"
    /\ err = ""
    /\ fps = board_footprints
    /\ out = <<>>
    /\ board = <<>>
    /\ nets_exclusively_on_sheet = <<>>
    /\ temp_file = FALSE
    /\ host_board = <<>>
    /\ groups = {}
    /\ group_items = {}
    /\ added = <<>>
    /\ net_pairs = <<>>
    /\ net_dict = {}
    /\ src_anchor = 0
    /\ i = 0
    /\ placed_from = [r \in {inp.dst_fps[k].ref : k \in 1..Len(inp.dst_fps)} |-> 0]
    /\ log = {}

Spec == Init /\ [][Next]_vars

----------------------------------------------------------------------------
(* The placement of one footprint between anchors on different sides,      *)
(* lines 1104-1151, applied forth from anchor A to anchor B and then back  *)
(* from B to A on what the first application has placed.                   *)

\* the variables of restore_layout that the calls outside it leave empty
board_vars == <<err, fps, groups, group_items, added, net_pairs, net_dict,
                src_anchor, i, placed_from, log>>

NoBoard ==
    /\ err = ""
    /\ fps = <<>>
    /\ groups = {}
    /\ group_items = {}
    /\ added = <<>>
    /\ net_pairs = <<>>
    /\ net_dict = {}
    /\ src_anchor = 0
    /\ i = 0
    /\ placed_from = <<>>
    /\ log = {}

State(pos, rot, flipped) ==
    [pos |-> pos, rot |-> rot, flipped |-> flipped, settings |-> 0, text |-> 0]

\* lines 1104-1151 for a footprint that is not the anchor, the anchors being
\* on different sides
mirrored_placement(st, src_fp, src_anchor_fp, dst_anchor_st) ==
    LET st1 == place_footprint(st, src_fp, src_anchor_fp, dst_anchor_st)
        st2 == [st1 EXCEPT !.settings = src_fp.settings]
    IN  mirror_footprint(st2, src_fp, src_anchor_fp, dst_anchor_st)

InitMirror ==
    /\ \E ar \in Angles, af \in BOOLEAN, br \in Angles,
          x \in Coords, y \in Coords, r \in Angles, f \in BOOLEAN, f2 \in BOOLEAN :
           inp = [A |-> State(<<1, -1>>, ar, af),
                  B |-> State(<<2, 1>>, br, ~af),
                  fp |-> State(<<x, y>>, r, f),
                  dst |-> State(<<0, 0>>, 0, f2)]
    /\ pc = "mirror_forth"
    /\ out = <<>>
    /\ board = <<>>
    /\ nets_exclusively_on_sheet = <<>>
    /\ temp_file = FALSE
    /\ host_board = <<>>
    /\ NoBoard

MirrorForth ==
    /\ pc = "mirror_forth"
    /\ out' = <<mirrored_placement(inp.dst, inp.fp, inp.A, inp.B)>>
    /\ pc' = "mirror_back"
    /\ UNCHANGED <<inp, board_vars, save_vars>>

MirrorBack ==
    /\ pc = "mirror_back"
    /\ out' = Append(out, mirrored_placement(inp.dst, out[1], inp.B, inp.A))
    /\ pc' = "mirror_done"
    /\ UNCHANGED <<inp, board_vars, save_vars>>

NextMirror == MirrorForth \/ MirrorBack

SpecMirror == InitMirror /\ [][NextMirror]_vars

----------------------------------------------------------------------------
(* save_layout.  The board of SaveLayout is the copy loaded in __init__: a *)
(* sequence of items, the footprints first.  An item that is not a         *)
(* footprint has a kind, a net name, whether it is connected, and where    *)
(* its bounding box lies against the bounding box of the level's           *)
(* footprints: "inside" (contained), "crossing" (intersecting, not         *)
(* contained) or "outside".                                                *)

Item(id, kind, net, connected, where) ==
    [id |-> id, kind |-> kind, net |-> net, connected |-> connected, where |-> where]

Contains(item) == item.where = "inside"

Intersects(item) == item.where # "outside"

\* lines 467-469 with the board passed to SaveLayout kept as self.board
aliased_host == TRUE

\* lines 467-469: self.board is the board loaded from the temporary file,
\* another object than the board passed to SaveLayout
aliased == FALSE

\* SaveLayout.src_anchor_fp: get_fp_by_ref(src_anchor_fp_ref)
src_anchor_fp ==
    inp.fps[CHOOSE k \in 1..Len(inp.fps) :
                /\ inp.fps[k].ref = inp.src_anchor_fp_ref
                /\ \A j \in 1..(k - 1) : inp.fps[j].ref # inp.src_anchor_fp_ref]

\* line 485
save_list_of_sheet_files == From(src_anchor_fp.filename, Len(inp.level) - 1)

\* get_footprints_on_sheet(level) and get_footprints_not_on_sheet(level)
src_fps == SelectSeq(inp.fps, LAMBDA fp : inp.level = Upto(fp.sheet_id, Len(inp.level)))

other_fps == SelectSeq(inp.fps, LAMBDA fp : inp.level # Upto(fp.sheet_id, Len(inp.level)))

\* the nets of the pads of the footprints, in order, each once
RECURSIVE Clean(_, _)
Clean(nets, nets_clean) ==
    IF nets = <<>> THEN nets_clean
    ELSE Clean(Tail(nets),
               IF Head(nets) \in Range(nets_clean) THEN nets_clean
               ELSE Append(nets_clean, Head(nets)))

RECURSIVE pad_nets(_)
pad_nets(footprints) ==
    IF footprints = <<>> THEN <<>>
    ELSE [k \in 1..Len(Head(footprints).pads) |-> Head(footprints).pads[k].net]
             \o pad_nets(Tail(footprints))

get_nets_from_footprints(footprints) == Clean(pad_nets(footprints), <<>>)

\* get_local_nets with the two lists of footprints taken for each other
get_local_nets_swapped(src_footprints, other_footprints) ==
    LET other_nets == get_nets_from_footprints(src_footprints)
        nets_on_sheet == get_nets_from_footprints(other_footprints)
    IN  SelectSeq(nets_on_sheet, LAMBDA net : net \notin Range(other_nets))

get_local_nets(src_footprints, other_footprints) ==
    LET other_nets == get_nets_from_footprints(other_footprints)
        nets_on_sheet == get_nets_from_footprints(src_footprints)
    IN  SelectSeq(nets_on_sheet, LAMBDA net : net \notin Range(other_nets))

\* the test of the remove_ functions on the place of an item
out_of_box(item, containing) ==
    IF containing THEN ~Contains(item) ELSE ~Intersects(item)

local(item) == item.net \in Range(nets_exclusively_on_sheet)

\* remove_text, lines 584-603
text_to_delete(item, containing, remove_all) ==
    /\ item.kind = "text"
    /\ remove_all \/ out_of_box(item, containing)

\* remove_drawings, lines 559-582
drawing_to_delete(item, containing, remove_all) ==
    /\ item.kind = "drawing"
    /\ remove_all \/ (out_of_box(item, containing) /\ item.connected /\ ~local(item))

\* remove_zones, lines 605-624
zone_to_delete(item, containing, remove_all) ==
    /\ item.kind = "zone"
    /\ remove_all \/ (out_of_box(item, containing) /\ ~local(item))

\* remove_tracks, lines 626-649
track_to_delete(item, containing, remove_all) ==
    /\ item.kind = "track"
    /\ remove_all \/ (out_of_box(item, containing) /\ ~local(item))

\* lines 484-495
SaveHash ==
    /\ pc = "save_hash"
    /\ LET contents == [k \in 1..Len(save_list_of_sheet_files) |->
                           inp.files[save_list_of_sheet_files[k]]]
       IN  IF \E k \in 1..Len(contents) : hash_raises(contents[k])
           THEN Raise("IndexError: get_sch_hash") /\ out' = out
           ELSE pc' = "get_local_nets" /\ err' = err /\ out' = <<hex_hash_of(contents)>>
    /\ UNCHANGED <<inp, fps, groups, group_items, added, net_pairs, net_dict,
                   src_anchor, i, placed_from, log, save_vars>>

\* lines 497-508
GetLocalNets ==
    /\ pc = "get_local_nets"
    /\ nets_exclusively_on_sheet' = get_local_nets(src_fps, other_fps)
    /\ pc' = "remove_text"
    /\ UNCHANGED <<inp, out, board, temp_file, host_board, board_vars>>

\* line 513
RemoveText ==
    /\ pc = "remove_text"
    /\ board' = SelectSeq(board, LAMBDA item :
                   ~text_to_delete(item, ~inp.intersecting, ~inp.text))
    /\ pc' = "remove_drawings"
    /\ host_board' = (IF aliased THEN board' ELSE host_board)
    /\ UNCHANGED <<inp, out, nets_exclusively_on_sheet, temp_file, board_vars>>

\* line 516
RemoveDrawings ==
    /\ pc = "remove_drawings"
    /\ board' = SelectSeq(board, LAMBDA item :
                   ~drawing_to_delete(item, ~inp.intersecting, ~inp.drawings))
    /\ pc' = "remove_zones"
    /\ host_board' = (IF aliased THEN board' ELSE host_board)
    /\ UNCHANGED <<inp, out, nets_exclusively_on_sheet, temp_file, board_vars>>

\* line 519
RemoveZones ==
    /\ pc = "remove_zones"
    /\ board' = SelectSeq(board, LAMBDA item :
                   ~zone_to_delete(item, ~inp.intersecting, ~inp.zones))
    /\ pc' = "remove_tracks"
    /\ host_board' = (IF aliased THEN board' ELSE host_board)
    /\ UNCHANGED <<inp, out, nets_exclusively_on_sheet, temp_file, board_vars>>

\* line 522
RemoveTracks ==
    /\ pc = "remove_tracks"
    /\ board' = SelectSeq(board, LAMBDA item :
                   ~track_to_delete(item, ~inp.intersecting, ~inp.tracks))
    /\ pc' = "remove_footprints"
    /\ host_board' = (IF aliased THEN board' ELSE host_board)
    /\ UNCHANGED <<inp, out, nets_exclusively_on_sheet, temp_file, board_vars>>

\* line 525
RemoveFootprints ==
    /\ pc = "remove_footprints"
    /\ board' = SelectSeq(board, LAMBDA item :
                   ~(item.kind = "footprint"
                     /\ \E k \in 1..Len(other_fps) : other_fps[k].ref = item.id))
    /\ pc' = "save_data"
    /\ host_board' = (IF aliased THEN board' ELSE host_board)
    /\ UNCHANGED <<inp, out, nets_exclusively_on_sheet, temp_file, board_vars>>

\* lines 543-545
level_filename ==
    [k \in 1..Len(inp.level) |->
        src_anchor_fp.filename[IndexOf(src_anchor_fp.sheet_id, inp.level[k])]]

level_saved == level_filename[Len(inp.level)]

\* lines 527-557: the LayoutData written to the data file
SaveData ==
    /\ pc = "save_data"
    /\ out' = <<[version |-> inp.VERSION,
                 layout |-> board,
                 hash |-> out[1],
                 list_of_local_nets |-> nets_exclusively_on_sheet,
                 level |-> level_saved,
                 level_filename |-> level_filename,
                 layer_count |-> inp.layer_count]>>
    /\ temp_file' = FALSE
    /\ pc' = "saved"
    /\ UNCHANGED <<inp, board, nets_exclusively_on_sheet, host_board, board_vars>>

\* SaveLayout is dropped and save_layout is not called: the dialog of
\* levels or the file dialog was cancelled
AbandonSave ==
    /\ pc = "save_hash"
    /\ pc' = "abandoned"
    /\ UNCHANGED <<inp, out, save_vars, board_vars>>

NextSave ==
    \/ AbandonSave
    \/ SaveHash
    \/ GetLocalNets
    \/ RemoveText
    \/ RemoveDrawings
    \/ RemoveZones
    \/ RemoveTracks
    \/ RemoveFootprints
    \/ SaveData

\* The inputs of a save: a root sheet 1 (file 1) with a sub-sheet 2 (file
\* 2), the level being the sub-sheet; two footprints of the level, on the
\* nets N1 and G, and a footprint of the root sheet on G and on one more net.
SaveBase ==
    [VERSION |-> <<1, 0>>,
     layer_count |-> 1,
     files |-> <<OtherContent, Plain>>,
     fps |-> << Fp(1, 1, <<1, 2>>, <<1, 2>>, <<0, 0>>, 0, FALSE,
                   <<Pad(1, "N1"), Pad(2, "G")>>, 2, 0),
                Fp(2, 2, <<1, 2>>, <<1, 2>>, <<1, 0>>, 0, FALSE, <<Pad(1, "N1")>>, 2, 0),
                Fp(3, 3, <<1>>, <<1>>, <<1, 1>>, 0, FALSE,
                   <<Pad(1, "G"), Pad(2, "O")>>, 2, 0) >>,
     src_anchor_fp_ref |-> 1,
     level |-> <<1, 2>>,
     items |-> <<>>,
     tracks |-> TRUE, zones |-> TRUE, text |-> TRUE, drawings |-> TRUE,
     intersecting |-> FALSE]

Places == {"inside", "crossing", "outside"}

SaveNets == {"N1", "G"}

Numbered(items) == [k \in 1..Len(items) |-> [items[k] EXCEPT !.id = 10 + k]]

\* the items of one kind on the board, the argument of save_layout for that
\* kind, the mode, and whether a footprint outside the level is on N1 too
SaveItemInputs ==
    \E on \in {"O", "N1"}, flag \in BOOLEAN, mode \in BOOLEAN :
        LET base == [SaveBase EXCEPT !.fps[3].pads[2].net = on, !.intersecting = mode]
        IN  \/ \E l \in SeqsUpTo({Item(0, "track", n, TRUE, w) : n \in SaveNets, w \in Places},
                                 MaxItems) :
                   inp = [base EXCEPT !.items = Numbered(l), !.tracks = flag]
            \/ \E l \in SeqsUpTo({Item(0, "zone", n, TRUE, w) : n \in SaveNets, w \in Places},
                                 MaxItems) :
                   inp = [base EXCEPT !.items = Numbered(l), !.zones = flag]
            \/ \E l \in SeqsUpTo({Item(0, "drawing", n, c, w) :
                                     n \in SaveNets, c \in BOOLEAN, w \in Places}, MaxItems) :
                   inp = [base EXCEPT !.items = Numbered(l), !.drawings = flag]
            \/ \E l \in SeqsUpTo({Item(0, "text", "", FALSE, w) : w \in Places}, MaxItems) :
                   inp = [base EXCEPT !.items = Numbered(l), !.text = flag]

\* the board that SaveLayout.__init__ has loaded: the footprints, then the
\* other items
loaded_board ==
    [k \in 1..Len(inp.fps) |-> Item(inp.fps[k].ref, "footprint", "", FALSE, "inside")]
        \o inp.items

\* a schematic file with an instances block that is not closed
Unbalanced == <<"a", NL, "I", "a", NL>>

\* the file of the level: one that get_sch_hash reads to its end, or not
SaveFileInputs ==
    \E c \in Contents \cup {Unbalanced} : inp = [SaveBase EXCEPT !.files[2] = c]

InitSave ==
    /\ SaveItemInputs \/ SaveFileInputs
    /\ pc = "save_hash"
    /\ out = <<>>
    /\ board = loaded_board
    /\ nets_exclusively_on_sheet = <<>>
    /\ temp_file = TRUE
    /\ host_board = loaded_board
    /\ NoBoard

SpecSave == InitSave /\ [][NextSave]_vars

----------------------------------------------------------------------------
(* restore_layout called a second time with the same data file and the     *)
(* same destination anchor, on the board that the first call has left.     *)
(* out keeps the footprints of the board as the first call left them.      *)

RestoreAgain ==
    /\ pc = "done"
    /\ out = <<>>
    /\ out' = <<fps>>
    /\ pc' = "check_version"
    /\ group_items' = {}
    /\ net_pairs' = <<>>
    /\ net_dict' = {}
    /\ src_anchor' = 0
    /\ i' = 0
    /\ placed_from' = [r \in DOMAIN placed_from |-> 0]
    /\ UNCHANGED <<err, inp, fps, groups, added, log, save_vars>>

NextRepeat == Next \/ RestoreAgain

SpecRepeat == Init /\ [][NextRepeat]_vars

----------------------------------------------------------------------------
(* save_layout on a source board, then RestoreLayout and restore_layout    *)
(* with the data file on a destination board.                              *)

of_kind(layout, kind) == SelectSeq(layout, LAMBDA item : item.kind = kind)

\* lines 787-814 and 871-886: the destination board and its project read,
\* the data file loaded, the footprints and items of the saved board
LoadSnapshot ==
    /\ pc = "saved"
    /\ LET data_saved == out[1]
           refs == {data_saved.layout[k].id : k \in 1..Len(data_saved.layout)}
           saved_tracks == of_kind(data_saved.layout, "track")
           saved_zones == of_kind(data_saved.layout, "zone")
           saved_drawings == of_kind(data_saved.layout, "drawing")
       IN  inp' = [VERSION |-> inp.VERSION,
                   version |-> data_saved.version,
                   layer_count |-> data_saved.layer_count,
                   dst_layer_count |-> inp.dst.layer_count,
                   level |-> data_saved.level,
                   hash |-> data_saved.hash,
                   files |-> inp.dst.files,
                   saved_fps |-> SelectSeq(inp.fps, LAMBDA fp : fp.ref \in refs),
                   dst_fps |-> inp.dst.fps,
                   dst_anchor_fp_ref |-> inp.dst.anchor_fp_ref,
                   group_name |-> "group",
                   tracks |-> [k \in 1..Len(saved_tracks) |-> saved_tracks[k].net],
                   zones |-> [k \in 1..Len(saved_zones) |->
                                 [copper |-> TRUE, net |-> saved_zones[k].net]],
                   texts |-> Len(of_kind(data_saved.layout, "text")),
                   drawings |-> [k \in 1..Len(saved_drawings) |->
                                    [connected |-> saved_drawings[k].connected,
                                     net |-> saved_drawings[k].net]],
                   saved_from |-> [files |-> inp.files,
                                   list_of_sheet_files |-> save_list_of_sheet_files]]
    /\ fps' = board_footprints'
    /\ placed_from' = [r \in DOMAIN fps' |-> 0]
    /\ pc' = "check_version"
    /\ UNCHANGED <<err, groups, group_items, added, net_pairs, net_dict, src_anchor, i,
                   log, out, save_vars>>

NextSaveRestore == NextSave \/ LoadSnapshot \/ Next

\* The source project: a root sheet 1 (file 1), its sub-sheet 2 (file 2) and
\* the sub-sheet 3 (file 3) of that one, a footprint on each; a track, a
\* zone, a text and a drawing on the sub-sheets.
SourceProject ==
    [SaveBase EXCEPT
        !.files = <<OtherContent, Plain, WithInstances, OtherContent>>,
        !.fps = << Fp(1, 1, <<1, 2>>, <<1, 2>>, <<0, 0>>, 0, FALSE, <<Pad(1, "N1")>>, 2, 0),
                   Fp(2, 2, <<1, 2, 3>>, <<1, 2, 3>>, <<1, 0>>, 0, FALSE,
                      <<Pad(1, "N1")>>, 2, 0),
                   Fp(3, 3, <<1>>, <<1>>, <<1, 1>>, 0, FALSE, <<Pad(1, "O")>>, 2, 0) >>,
        !.items = << Item(11, "track", "N1", TRUE, "inside"),
                     Item(12, "zone", "N1", TRUE, "inside"),
                     Item(13, "text", "", FALSE, "inside"),
                     Item(14, "drawing", "N1", TRUE, "inside") >>]

Hierarchies == {"same", "deeper", "shallower"}

\* the chain of a sheet in the destination project: the same, below one more
\* sheet (top), or with sheet 2 as the root
DstChain(h, chain, top) ==
    CASE h = "same" -> chain
      [] h = "deeper" -> <<top>> \o chain
      [] h = "shallower" -> Tail(chain)

\* the footprints of the destination project, elsewhere on the board
DstFps(h) ==
    LET all == [k \in 1..3 |->
                   LET fp == SourceProject.fps[k]
                   IN  [fp EXCEPT !.ref = 10 + k,
                                  !.sheet_id = DstChain(h, fp.sheet_id, 9),
                                  !.filename = DstChain(h, fp.filename, 4),
                                  !.pos = VecAdd(fp.pos, <<1, 1>>),
                                  !.pads = <<Pad(1, IF k = 3 THEN "P" ELSE "M1")>>]]
    IN  SelectSeq(all, LAMBDA fp : fp.sheet_id # <<>>)

\* the source anchor and the level, a prefix of its path; the hierarchy of
\* the destination, its anchor, and the file of it that was edited (0: none)
RoundTripInputs ==
    \E a \in {1, 2}, h \in Hierarchies, d \in {11, 12}, changed \in {0, 2, 3} :
        \E n \in 1..Len(SourceProject.fps[a].sheet_id) :
            inp = [SourceProject EXCEPT
                      !.src_anchor_fp_ref = a,
                      !.level = Upto(SourceProject.fps[a].sheet_id, n)]
                  @@ [dst |-> [fps |-> DstFps(h),
                               anchor_fp_ref |-> d,
                               layer_count |-> 1,
                               files |-> IF changed = 0 THEN SourceProject.files
                                         ELSE [SourceProject.files EXCEPT
                                                  ![changed] = <<"b", NL>>]]]

InitSaveRestore ==
    /\ RoundTripInputs
    /\ pc = "save_hash"
    /\ out = <<>>
    /\ board = loaded_board
    /\ nets_exclusively_on_sheet = <<>>
    /\ temp_file = TRUE
    /\ host_board = loaded_board
    /\ NoBoard

SpecSaveRestore == InitSaveRestore /\ [][NextSaveRestore]_vars

----------------------------------------------------------------------------
(* get_sch_hash called on a file and on an edited copy of it, each after   *)
(* the file Plain of the same chain.  The edit replaces one character, or  *)
(* swaps two lines.                                                        *)

\* the lines a file is made of: content, a blank line, a Reference line, an
\* instances block on one line, the opening and the closing line of a block
\* over several lines, a parenthesised line, a block followed by content, two
\* adjacent blocks
SchLines == { <<"a">>, <<"b", "a">>, <<" ">>, <<"R", "a">>, <<"I", "a", ")">>,
              <<"I", "a">>, <<")", "b">>, <<"(", "a", ")">>, <<"I", "a", ")", "b">>,
              <<"I", ")", "I", "a", ")">> }

\* files of up to MaxLines lines, ending with a newline or not
SchFiles ==
    { Join(ls) \o end : ls \in SeqsUpTo(SchLines, MaxLines) \ {<<>>}, end \in {<<>>, <<NL>>} }

EndsWithNewline(f) == f # <<>> /\ f[Len(f)] = NL

\* the lines of a file, a final newline ending the last line
lines_of(f) == IF EndsWithNewline(f) THEN Split(SubSeq(f, 1, Len(f) - 1)) ELSE Split(f)

Edit(kind, at, with, p, q) == [kind |-> kind, at |-> at, with |-> with, p |-> p, q |-> q]

\* one character that is no whitespace and no start of a Reference or
\* instances text replaced by another letter, or two lines swapped
Edits(f) ==
    { Edit("replace", at, c, 0, 0) :
          at \in {k \in 1..Len(f) : f[k] \notin {NL, " ", "R", "I"}}, c \in {"a", "b"} }
    \cup { Edit("swap", 0, "", p, q) : p \in 1..Len(lines_of(f)), q \in 1..Len(lines_of(f)) }

edited(f, e) ==
    IF e.kind = "replace" THEN [f EXCEPT ![e.at] = e.with]
    ELSE LET ls == lines_of(f)
             swapped == [k \in 1..Len(ls) |->
                            IF k = e.p THEN ls[e.q] ELSE IF k = e.q THEN ls[e.p] ELSE ls[k]]
         IN  Join(swapped) \o (IF EndsWithNewline(f) THEN <<NL>> ELSE <<>>)

\* what a call of get_sch_hash on the file gives, after the first file of the
\* chain: the md5 object, or the IndexError of line 92
hashed(f) ==
    IF hash_raises(f) THEN [raised |-> TRUE, md5hash |-> <<>>]
    ELSE [raised |-> FALSE, md5hash |-> get_sch_hash(f, get_sch_hash(Plain, <<>>))]

InitHash ==
    /\ \E f \in SchFiles : \E e \in Edits(f) :
           /\ edited(f, e) # f
           /\ inp = [file |-> f, edit |-> e]
    /\ pc = "hash_file"
    /\ out = <<>>
    /\ board = <<>>
    /\ nets_exclusively_on_sheet = <<>>
    /\ temp_file = FALSE
    /\ host_board = <<>>
    /\ NoBoard

HashFile ==
    /\ pc = "hash_file"
    /\ out' = <<hashed(inp.file)>>
    /\ pc' = "hash_edited"
    /\ UNCHANGED <<inp, board_vars, save_vars>>

HashEdited ==
    /\ pc = "hash_edited"
    /\ out' = Append(out, hashed(edited(inp.file, inp.edit)))
    /\ pc' = "hash_done"
    /\ UNCHANGED <<inp, board_vars, save_vars>>

NextHash == HashFile \/ HashEdited

SpecHash == InitHash /\ [][NextHash]_vars

----------------------------------------------------------------------------
(* PrjData.__init__ on a board, no dictionary of sheets supplied.  out is  *)
(* the object under construction: dict_of_sheets (sheet id -> name and     *)
(* file), unique_sheet_ids (0 is the empty first item of a split path) and *)
(* footprints.  A file is the sequence of the parts of its relative path.  *)

rest_vars == <<fps, groups, group_items, added, net_pairs, net_dict, src_anchor, i,
               placed_from, log>>

Sheet(name, file) == [name |-> name, file |-> file]

\* a footprint of the board: path[0:-1] of its split path (<<0>> on the root
\* sheet, <<0, 1>> on sheet 1, empty when the footprint is in the layout
\* only), and its Sheetfile and Sheetname properties: present, absent
\* (KeyError) or empty
BoardFp(ref, path, props) == [ref |-> ref, sheet_path |-> path, props |-> props]

\* lines 186-187
sheet_path(fp) == fp.sheet_path

\* get_sheet_id: path[-2], the empty string for a footprint of the root sheet
\* and None for a footprint that is in the layout only, both false (0)
get_sheet_id(fp) ==
    IF fp.sheet_path = <<>> THEN 0 ELSE fp.sheet_path[Len(fp.sheet_path)]

\* lines 183-211: the loop over the footprints; acc is the object with the
\* exception raised so far
RECURSIVE collect_sheets(_, _)
collect_sheets(footprints, acc) ==
    IF footprints = <<>> \/ acc.raised # "" THEN acc
    ELSE LET fp == Head(footprints)
             sheet_id == get_sheet_id(fp)
             seen == [acc EXCEPT !.unique_sheet_ids = @ \cup Range(sheet_path(fp))]
         IN  collect_sheets(Tail(footprints),
                 IF fp.props = "absent" THEN seen
                 ELSE IF fp.props = "present" /\ sheet_id # 0
                 THEN [seen EXCEPT !.dict_of_sheets =
                          (sheet_id :> Sheet(sheet_id, inp.sheet_files[sheet_id]))
                              @@ [k \in DOMAIN @ \ {sheet_id} |-> @[k]]]
                 ELSE IF sheet_id # 0
                 THEN [seen EXCEPT !.raised = "LookupError: Sheetfile"]
                 ELSE seen)

\* lines 180-211
CollectSheets ==
    /\ pc = "collect_sheets"
    /\ LET acc == collect_sheets(inp.footprints,
                      [dict_of_sheets |-> <<>>, unique_sheet_ids |-> {}, footprints |-> <<>>,
                       raised |-> ""])
       IN  /\ out' = [dict_of_sheets |-> acc.dict_of_sheets,
                      unique_sheet_ids |-> acc.unique_sheet_ids,
                      footprints |-> <<>>]
           /\ IF acc.raised # "" THEN Raise(acc.raised)
              ELSE pc' = "parse_schematics" /\ err' = err
    /\ UNCHANGED <<inp, rest_vars, save_vars>>

\* os.path.dirname and os.path.join on relative paths
dirname(f) == SubSeq(f, 1, Len(f) - 1)

exists(f) == f \in inp.existing_files

\* the root schematic file, in the project folder
sch_filename == <<"root">>

\* parse_schematic_files on the file of sheet owner (0 is the root) in folder
\* filename_dir: every sheet the file defines gets an entry, its file is
\* looked for in the folder of the file that defines it, and is parsed too
RECURSIVE parse_schematic_files(_, _, _, _)
parse_schematic_files(filename_dir, owner, at, acc) ==
    IF at > Len(inp.sheet_definitions[owner + 1]) \/ acc.raised THEN acc
    ELSE LET uuid == inp.sheet_definitions[owner + 1][at]
             sheetfile == inp.sheet_files[uuid]
             sheetfilepath == filename_dir \o sheetfile
             found == [acc EXCEPT !.dict =
                          (uuid :> Sheet(uuid, sheetfile)) @@ [k \in DOMAIN @ \ {uuid} |-> @[k]]]
         IN  IF ~exists(sheetfilepath) THEN [found EXCEPT !.raised = TRUE]
             ELSE parse_schematic_files(filename_dir, owner, at + 1,
                      parse_schematic_files(dirname(sheetfilepath), uuid, 1, found))

\* lines 213-227: the schematic files are parsed when a sheet of a path has
\* no entry yet
ParseSchematics ==
    /\ pc = "parse_schematics"
    /\ IF 0 \notin out.unique_sheet_ids
       THEN Raise("KeyError: remove") /\ out' = out
       ELSE LET unique_sheet_ids == out.unique_sheet_ids \ {0}
            IN  IF Cardinality(unique_sheet_ids) > Cardinality(DOMAIN out.dict_of_sheets)
                THEN LET schematic_found ==
                             parse_schematic_files(dirname(sch_filename), 0, 1,
                                                   [dict |-> <<>>, raised |-> FALSE])
                     IN  IF ~exists(sch_filename)
                         THEN /\ Raise("FileNotFoundError")
                              /\ out' = [out EXCEPT !.unique_sheet_ids = unique_sheet_ids]
                         ELSE IF schematic_found.raised
                         THEN /\ Raise("LookupError: parse_schematic_files")
                              /\ out' = [out EXCEPT !.unique_sheet_ids = unique_sheet_ids]
                         ELSE /\ out' = [out EXCEPT !.unique_sheet_ids = unique_sheet_ids,
                                                    !.dict_of_sheets = schematic_found.dict]
                              /\ pc' = "fix_paths"
                              /\ err' = err
                ELSE /\ out' = [out EXCEPT !.unique_sheet_ids = unique_sheet_ids]
                     /\ pc' = "fix_paths"
                     /\ err' = err
    /\ UNCHANGED <<inp, rest_vars, save_vars>>

\* lines 229-243: an entry whose file is not found is looked for in the
\* folders of the other entries; the last folder that has it wins
corrected(d) ==
    LET ids == DOMAIN d
        order == CHOOSE s \in [1..Cardinality(ids) -> ids] :
                     /\ Range(s) = ids
                     /\ \A a \in 1..Len(s), b \in 1..Len(s) : a < b => s[a] < s[b]
        other_folders == SelectSeq([k \in 1..Len(order) |-> dirname(d[order[k]].file)],
                                   LAMBDA folder : folder # <<>>)
    IN  [k \in ids |->
            LET f == d[k].file
                found == SelectSeq(other_folders, LAMBDA folder : exists(folder \o f))
            IN  IF ~exists(f) /\ found # <<>>
                THEN Sheet(d[k].name, found[Len(found)] \o f)
                ELSE d[k]]

FixPaths ==
    /\ pc = "fix_paths"
    /\ out' = [out EXCEPT !.dict_of_sheets = corrected(@)]
    /\ pc' = "construct_footprints"
    /\ UNCHANGED <<err, inp, rest_vars, save_vars>>

\* get_sheet_path: the names and the files of the sheets of the path that
\* the dictionary knows
get_sheet_path(fp) ==
    LET known == SelectSeq(sheet_path(fp), LAMBDA x : x \in DOMAIN out.dict_of_sheets)
    IN  <<[k \in 1..Len(known) |-> out.dict_of_sheets[known[k]].name],
          [k \in 1..Len(known) |-> out.dict_of_sheets[known[k]].file]>>

\* lines 245-253
ConstructFootprints ==
    /\ pc = "construct_footprints"
    /\ out' = [out EXCEPT !.footprints =
                  [k \in 1..Len(inp.footprints) |->
                      [ref |-> inp.footprints[k].ref,
                       sheet_id |-> get_sheet_path(inp.footprints[k])[1],
                       filename |-> get_sheet_path(inp.footprints[k])[2]]]]
    /\ pc' = "constructed"
    /\ UNCHANGED <<err, inp, rest_vars, save_vars>>

NextPrjData == CollectSheets \/ ParseSchematics \/ FixPaths \/ ConstructFootprints

\* the files of the project folder
ProjectFiles == { sch_filename, <<"s1">>, <<"s2">>, <<"sub", "s1">>, <<"sub", "s2">> }

\* the sheets the schematic files define: those of the root file, those of
\* the file of sheet 1 and those of the file of sheet 2; sheet 2 is defined
\* once at most
SheetDefinitions ==
    { <<root, of1, <<>>>> : root \in {<<>>, <<1>>, <<2>>, <<1, 2>>}, of1 \in {<<>>, <<2>>} }
        \ { <<root, <<2>>, <<>>>> : root \in {<<2>>, <<1, 2>>} }

\* two footprints: the first on the root sheet, on sheet 1, on its sub-sheet
\* 2, or in the layout only, with or without its properties; the second on a
\* sheet or in the layout only; the file of a sheet as its definition and the
\* properties of its footprints name it
PrjDataInputs ==
    \E p1 \in {<<>>, <<0>>, <<0, 1>>, <<0, 1, 2>>}, props \in {"present", "absent", "empty"},
       p2 \in {<<>>, <<0, 1>>, <<0, 2>>},
       f1 \in {<<"s1">>, <<"sub", "s1">>}, f2 \in {<<"s2">>, <<"sub", "s2">>},
       definitions \in SheetDefinitions,
       present \in SUBSET ProjectFiles :
        inp = [footprints |-> <<BoardFp(1, p1, props), BoardFp(2, p2, "present")>>,
               sheet_files |-> <<f1, f2>>,
               sheet_definitions |-> definitions,
               existing_files |-> present]

InitPrjData ==
    /\ PrjDataInputs
    /\ pc = "collect_sheets"
    /\ out = <<>>
    /\ board = <<>>
    /\ nets_exclusively_on_sheet = <<>>
    /\ temp_file = FALSE
    /\ host_board = <<>>
    /\ NoBoard

SpecPrjData == InitPrjData /\ [][NextPrjData]_vars

(* Properties of PrjData.__init__. *)

Constructed == pc = "constructed"

\* the sheet ids of the path of a footprint, the empty first item left out
chain(fp) == Range(sheet_path(fp)) \ {0}

\* the dictionary and the set of sheet ids after the loop over the footprints
from_footprints ==
    collect_sheets(inp.footprints,
        [dict_of_sheets |-> <<>>, unique_sheet_ids |-> {}, footprints |-> <<>>, raised |-> ""])

\* the schematic files had to be parsed
parsed ==
    Cardinality(from_footprints.unique_sheet_ids \ {0})
        > Cardinality(DOMAIN from_footprints.dict_of_sheets)

\* C21: when the construction of PrjData finishes, every sheet id of the
\* path of every footprint has an entry in the dictionary of sheets, so no
\* sheet is left out of the sheet chain of a footprint; a sheet id that can
\* not be resolved makes the construction raise.
C21_SheetChainResolved ==
    Constructed =>
        \A k \in 1..Len(inp.footprints) :
            /\ chain(inp.footprints[k]) \subseteq DOMAIN out.dict_of_sheets
            /\ Len(out.footprints[k].sheet_id) = Cardinality(chain(inp.footprints[k]))

\* C21, when the properties of the footprints name every sheet of every
\* path: the schematic files are not parsed and every chain is whole.
C21_SheetChainResolvedFromFootprints ==
    Constructed /\ ~parsed =>
        \A k \in 1..Len(inp.footprints) :
            Len(out.footprints[k].sheet_id) = Cardinality(chain(inp.footprints[k]))

\* the folders of the entries of the dictionary, as the footprints or the
\* schematic files gave them
folders == {dirname(inp.sheet_files[k]) : k \in DOMAIN out.dict_of_sheets} \ {<<>>}

\* C22: when the construction of PrjData finishes, the file of every entry
\* of the dictionary of sheets exists in the project folder; an entry whose
\* file is found nowhere makes the construction fail.
C22_SheetFilesExist ==
    Constructed =>
        \A k \in DOMAIN out.dict_of_sheets : exists(out.dict_of_sheets[k].file)

\* C22, for the entries that are found: an entry whose file exists in the
\* project folder is kept, one whose file exists under the folder of another
\* entry names that place.
C22_SheetFilesExistWhenFound ==
    Constructed =>
        \A k \in DOMAIN out.dict_of_sheets :
            LET f == inp.sheet_files[k]
            IN  /\ exists(f) => out.dict_of_sheets[k].file = f
                /\ ~exists(f) /\ (\E d \in folders : exists(d \o f)) =>
                       /\ exists(out.dict_of_sheets[k].file)
                       /\ \E d \in folders : out.dict_of_sheets[k].file = d \o f

----------------------------------------------------------------------------
(* SaveRestoreLayout.Run, the action of the plugin.  out is the list of    *)
(* the calls it makes into save_restore_layout and of the dialogs that     *)
(* report a failure.                                                       *)

\* the parameters of RestoreLayout.__init__ after self (line 787) and of
\* SaveLayout.__init__ (line 452); none has a default
RestoreLayout_parameters == <<"board", "dst_anchor_fp_ref", "group_name">>

SaveLayout_parameters == <<"board", "src_anchor_fp_ref">>

\* a call with positional arguments raises TypeError unless it gives one
\* argument for each parameter
TypeError(parameters, args) == Len(args) # Len(parameters)

Call(name, args, raised) == [call |-> name, args |-> args, raised |-> raised]

\* the footprints selected on the board, the button of the first dialog,
\* what the dialogs of the save give, the file dialog, and whether the
\* constructor and the operation meet an error of their own
RunInputs ==
    \E sel \in {<<>>, <<"R1">>, <<"R1", "R2">>}, choice \in {"SAVE", "RESTORE", "CLOSE"},
       ctor \in BOOLEAN, level_ok \in BOOLEAN, selected_level \in {-1, 0},
       file_ok \in BOOLEAN, fails \in BOOLEAN :
        inp = [selected_footprints |-> sel, res |-> choice, constructor_raises |-> ctor,
               level_ok |-> level_ok, selected_level |-> selected_level,
               file_ok |-> file_ok, operation_raises |-> fails]

InitRun ==
    /\ RunInputs
    /\ pc = "run"
    /\ out = <<>>
    /\ board = <<>>
    /\ nets_exclusively_on_sheet = <<>>
    /\ temp_file = FALSE
    /\ host_board = <<>>
    /\ NoBoard

\* lines 165-177
CheckSelection ==
    /\ pc = "run"
    /\ IF Len(inp.selected_footprints) # 1
       THEN out' = Append(out, Call("MessageDialog", <<>>, "")) /\ pc' = "returned"
       ELSE out' = out /\ pc' = "initial_dialog"
    /\ UNCHANGED <<inp, board_vars, save_vars>>

\* lines 179-188 and 259
ShowInitialDialog ==
    /\ pc = "initial_dialog"
    /\ pc' = CASE inp.res = "SAVE" -> "save"
               [] inp.res = "RESTORE" -> "restore"
               [] OTHER -> "returned"
    /\ UNCHANGED <<inp, out, board_vars, save_vars>>

\* lines 188-257
RunSave ==
    /\ pc = "save"
    /\ LET anchor_fp_ref == inp.selected_footprints[1]
           args == <<"board", anchor_fp_ref>>
           created == Call("SaveLayout", args,
                           IF TypeError(SaveLayout_parameters, args) THEN "TypeError"
                           ELSE IF inp.constructor_raises THEN "Exception" ELSE "")
       IN  IF created.raised # ""
           THEN out' = out \o <<created, Call("ErrorDialog", <<>>, "")>>
           ELSE IF ~inp.level_ok
           THEN out' = Append(out, created)
           ELSE IF inp.selected_level < 0
           THEN out' = out \o <<created, Call("MessageDialog", <<>>, "")>>
           ELSE IF ~inp.file_ok
           THEN out' = Append(out, created)
           ELSE IF inp.operation_raises
           THEN out' = out \o <<created, Call("save_layout", <<"data_file">>, "Exception"),
                                Call("ErrorDialog", <<>>, "")>>
           ELSE out' = out \o <<created, Call("save_layout", <<"data_file">>, "")>>
    \* the temporary file of SaveLayout.__init__, removed when save_layout returns
    /\ temp_file' = (/\ ~inp.constructor_raises
                     /\ ~(inp.level_ok /\ inp.selected_level >= 0 /\ inp.file_ok
                          /\ ~inp.operation_raises))
    /\ pc' = "returned"
    /\ UNCHANGED <<inp, board, nets_exclusively_on_sheet, host_board, board_vars>>

\* lines 259-312
RunRestore ==
    /\ pc = "restore"
    /\ LET anchor_fp_ref == inp.selected_footprints[1]
           args == <<"board", anchor_fp_ref>>
           created == Call("RestoreLayout", args,
                           IF TypeError(RestoreLayout_parameters, args) THEN "TypeError"
                           ELSE IF inp.constructor_raises THEN "Exception" ELSE "")
       IN  IF ~inp.file_ok
           THEN out' = out
           ELSE IF created.raised # ""
           THEN out' = out \o <<created, Call("MessageDialog", <<>>, "")>>
           ELSE IF inp.operation_raises
           THEN out' = out \o <<created, Call("restore_layout", <<"layout_file">>, "Exception"),
                                Call("MessageDialog", <<>>, "")>>
           ELSE out' = out \o <<created, Call("restore_layout", <<"layout_file">>, "")>>
    /\ pc' = "returned"
    /\ UNCHANGED <<inp, board_vars, save_vars>>

NextRun == CheckSelection \/ ShowInitialDialog \/ RunSave \/ RunRestore

SpecRun == InitRun /\ [][NextRun]_vars

----------------------------------------------------------------------------
(* Properties of restore_layout. *)

\* the destination board is as the call found it
BoardUntouched == fps = board_footprints /\ groups = {} /\ added = <<>>

Raised(kind) == pc = "error" /\ err = kind

\* the checks of lines 816-869 lie behind
PastVersionCheck == pc # "check_version" /\ ~Raised("LookupError: newer version")

PastLayerCheck ==
    /\ PastVersionCheck
    /\ pc # "check_layer_count"
    /\ ~Raised("LookupError: less layers")

PastHashCheck ==
    /\ PastLayerCheck
    /\ pc \notin {"find_level", "check_hash"}
    /\ ~Raised("LookupError: level")
    /\ ~Raised("ValueError: hash")
    /\ ~Raised("IndexError: get_sch_hash")

PastNetPairs ==
    /\ PastHashCheck
    /\ pc \notin {"check_count", "get_net_pairs"}
    /\ ~Raised("ValueError: footprint count")
    /\ ~Raised("LookupError: no matching footprint")
    /\ ~Raised("IndexError: pads")

\* the errors that restore_layout raises on purpose
FatalErrors ==
    {"LookupError: newer version", "LookupError: less layers", "LookupError: level",
     "ValueError: hash", "ValueError: footprint count", "LookupError: no matching footprint",
     "LookupError: no destination footprint", "LookupError: text items"}

\* C1: whenever restore_layout raises one of its fatal errors, the destination
\* board is exactly as before the call: no group added, no footprint moved,
\* flipped, rotated or changed in its settings or text, nothing added.
C1_FatalErrorLeavesBoardUntouched ==
    (pc = "error" /\ err \in FatalErrors) => BoardUntouched

\* the files of the destination anchor's sheet chain, from the first sheet
\* whose file is the saved level down to the anchor's own sheet
AnchorChainFromLevel ==
    LET files == dst_anchor_fp.filename
        first == CHOOSE k \in 1..Len(files) :
                     files[k] = inp.level /\ \A j \in 1..(k - 1) : files[j] # inp.level
    IN  [k \in 1..(Len(files) - first + 1) |-> inp.files[files[first + k - 1]]]

\* C2: the fingerprint is recomputed over the destination anchor's file chain;
\* when it differs from the snapshot's, restore_layout raises with the board
\* untouched, and when it is equal this check does not raise.
C2_FingerprintGate ==
    /\ Raised("ValueError: hash") =>
           (BoardUntouched /\ hex_hash_of(AnchorChainFromLevel) # inp.hash)
    /\ PastHashCheck => hex_hash_of(AnchorChainFromLevel) = inp.hash

\* C2 witness: a mismatch raised for an anchor two sheets deep whose level is
\* the inner sheet, and whose outer sheet alone would have matched
C2_Witness ==
    /\ Raised("ValueError: hash")
    /\ dst_anchor_fp.filename = <<2, 1>>
    /\ inp.level = 1
    /\ inp.hash = hex_hash_of(<<inp.files[2]>>)

\* version a exceeds version b: at the first component where both have one
\* and differ, a's is the larger
Exceeds(a, b) ==
    \E k \in 1..Min(Len(a), Len(b)) :
        a[k] > b[k] /\ \A j \in 1..(k - 1) : a[j] = b[j]

\* C3: a snapshot whose version exceeds the engine's is rejected with the
\* board untouched; one whose version does not exceed it passes this check.
C3_VersionGate ==
    /\ Raised("LookupError: newer version") =>
           (BoardUntouched /\ Exceeds(inp.version, inp.VERSION))
    /\ PastVersionCheck => ~Exceeds(inp.version, inp.VERSION)

\* C3 witness: a snapshot newer in its last component only is rejected
C3_Witness ==
    /\ Raised("LookupError: newer version")
    /\ inp.VERSION = <<1, 0>>
    /\ inp.version = <<1, 1>>

\* C4: the layer-count error is raised exactly when the destination board has
\* fewer copper layers than the snapshot stores.
C4_LayerGate ==
    /\ Raised("LookupError: less layers") => inp.dst_layer_count < inp.layer_count
    /\ PastLayerCheck => ~(inp.dst_layer_count < inp.layer_count)

\* C5: restore_layout does not complete while a destination footprint of the
\* level has no saved footprint with its fp_id.
C5_UnmatchedDestinationAborts ==
    pc = "done" =>
        \A k \in 1..Len(footprints_to_place) :
            \E j \in 1..Len(saved_fps) : saved_fps[j].fp_id = footprints_to_place[k].fp_id

\* C6: the net correspondence is never derived from a footprint pair whose
\* pad counts differ: with such a pair restore_layout raises in get_net_pairs.
C6_PadCountMismatchAborts ==
    PastNetPairs =>
        \A k \in 1..Len(saved_fps) :
            Len(saved_fps[k].pads) = Len(fp_pair(saved_fps[k], footprints_to_place).pads)

\* C7: a zone or connected drawing whose net has no correspondence does not
\* make restore_layout raise: it is skipped and the rest is replicated.
C7_ElementErrorNotPropagated ==
    ~Raised("IndexError: zone") /\ ~Raised("IndexError: drawing")

\* the saved footprint that restore_layout took as anchor
saved_anchor == saved_fps[src_anchor]

\* the destination footprints that were placed and are not the anchor
PlacedRefs ==
    {r \in DOMAIN fps : r # dst_anchor_fp.ref /\ placed_from[r] # 0}

saved_of(r) == saved_fps[placed_from[r]]

NonMirrored == saved_anchor.flipped = dst_anchor_fp.flipped

\* dest_anchor.rot - saved_anchor.rot
DeltaRot == dst_anchor_fp.rot - saved_anchor.rot

\* the rotation (x cos a - y sin a, x sin a + y cos a) by a multiple of 90
QuarterTurns(v, a) ==
    LET q == (a \div 90) % 4
    IN  CASE q = 0 -> v
          [] q = 1 -> <<-v[2], v[1]>>
          [] q = 2 -> <<-v[1], -v[2]>>
          [] q = 3 -> <<v[2], -v[1]>>

C9_NonMirroredRotationMinusDelta ==
    (pc = "done" /\ NonMirrored) =>
        \A r \in PlacedRefs : fps[r].rot = Normalize180(saved_of(r).rot - DeltaRot)

\* C9 amended: in the non-mirrored case every non-anchor destination
\* footprint ends with rotation saved_fp.rot + DeltaRot, brought into (-180, 180].
C9_NonMirroredRotationPlusDelta ==
    (pc = "done" /\ NonMirrored) =>
        \A r \in PlacedRefs : fps[r].rot = Normalize180(saved_of(r).rot + DeltaRot)

\* C9 witness: anchors a quarter turn apart on the same side, a saved
\* footprint at 0 degrees ends at 90
C9_Witness ==
    /\ pc = "done"
    /\ NonMirrored
    /\ DeltaRot = 90
    /\ 12 \in PlacedRefs
    /\ saved_of(12).rot = 0
    /\ fps[12].rot = 90

\* C10: every non-anchor destination footprint ends on the side of its saved
\* counterpart when the anchors are on the same side, and on the other side
\* when they are not, whichever side it was on before.
C10_FlipFollowsAnchors ==
    pc = "done" =>
        \A r \in PlacedRefs :
            fps[r].flipped = (IF NonMirrored THEN saved_of(r).flipped
                              ELSE ~saved_of(r).flipped)

\* C10 witness: anchors on different sides, and a footprint that changed side
C10_Witness ==
    /\ pc = "done"
    /\ ~NonMirrored
    /\ 12 \in PlacedRefs
    /\ fps[12].flipped # board_footprints[12].flipped
    /\ fps[12].flipped = ~saved_of(12).flipped

\* C11: the destination anchor keeps its position, rotation and side all
\* through restore_layout, mirrored or not, also when several saved
\* footprints have the anchor's fp_id.
C11_AnchorStays ==
    LET a == dst_anchor_fp.ref
    IN  /\ fps[a].pos = board_footprints[a].pos
        /\ fps[a].rot = board_footprints[a].rot
        /\ fps[a].flipped = board_footprints[a].flipped

\* C11 witness: a mirrored restore with the anchors at different angles and
\* places has gone through the anchor and through another footprint
C11_Witness ==
    /\ pc = "done"
    /\ ~NonMirrored
    /\ DeltaRot # 0
    /\ saved_anchor.pos # dst_anchor_fp.pos
    /\ placed_from[dst_anchor_fp.ref] # 0
    /\ PlacedRefs # {}

\* the destination anchor is where, and as, the saved anchor was
NullAnchorDelta ==
    /\ dst_anchor_fp.pos = saved_anchor.pos
    /\ dst_anchor_fp.rot = saved_anchor.rot
    /\ dst_anchor_fp.flipped = saved_anchor.flipped

\* C12: when the destination anchor has the position, rotation and side of
\* the saved anchor, every destination footprint that restore_layout went
\* through ends at the position and rotation of its saved counterpart.
C12_NullDeltaIsIdentity ==
    (pc = "done" /\ NullAnchorDelta) =>
        \A r \in DOMAIN fps :
            placed_from[r] # 0 =>
                /\ fps[r].pos = saved_fps[placed_from[r]].pos
                /\ fps[r].rot = saved_fps[placed_from[r]].rot

\* C12 witness: a footprint that was elsewhere, at another angle and on the
\* other side is now where its saved counterpart was
C12_Witness ==
    /\ pc = "done"
    /\ NullAnchorDelta
    /\ dst_anchor_fp.rot = 90
    /\ 12 \in PlacedRefs
    /\ saved_of(12).pos = <<1, 1>>
    /\ saved_of(12).rot = -90
    /\ board_footprints[12].flipped # saved_of(12).flipped
    /\ fps[12].pos = <<1, 1>>
    /\ fps[12].rot = -90

\* the saved footprints with the fp_id of the destination footprint d, as
\* positions in saved_fps, and the overlap of their sheet paths with d's
saved_candidates(d) == {k \in 1..Len(saved_fps) : saved_fps[k].fp_id = d.fp_id}

overlap(s, d) == Cardinality(Range(s.sheet_id) \cap Range(d.sheet_id))

best_candidate(d) ==
    CHOOSE k \in saved_candidates(d) :
        /\ \A j \in saved_candidates(d) : overlap(saved_fps[j], d) <= overlap(saved_fps[k], d)
        /\ \A j \in saved_candidates(d) :
               j < k => overlap(saved_fps[j], d) < overlap(saved_fps[k], d)

\* C14: a destination footprint with several saved footprints of its fp_id is
\* placed from the one whose sheet path overlaps most with its own, the first
\* of them on equal overlap, never from one with a smaller overlap.
C14_PairIsBestCandidate ==
    pc = "done" =>
        \A k \in 1..Len(footprints_to_place) :
            LET d == footprints_to_place[k]
            IN  Cardinality(saved_candidates(d)) > 1 =>
                    placed_from[d.ref] = best_candidate(d)

\* the saved tracks that replicate_tracks has gone through
tracks_handled ==
    IF pc = "replicate_tracks" THEN 1..(i - 1)
    ELSE IF \/ pc \in {"replicate_zones", "replicate_text", "replicate_drawings", "done"}
            \/ Raised("IndexError: zone")
            \/ Raised("IndexError: drawing")
         THEN 1..Len(inp.tracks)
         ELSE {}

added_tracks == {added[k] : k \in {j \in 1..Len(added) : added[j].kind = "track"}}

\* C15: a saved track is duplicated onto the board exactly when its net name
\* has a pair in the net correspondence, the duplicate is on a destination
\* net paired with that name, and no step of replicate_tracks raises.
C15_TracksFollowNetPairs ==
    /\ [](/\ \A j \in tracks_handled :
                (\E t \in added_tracks : t.src = j)
                    <=> (\E k \in 1..Len(net_pairs) : net_pairs[k][1] = inp.tracks[j])
          /\ \A t \in added_tracks :
                /\ t.src \in tracks_handled
                /\ \E k \in 1..Len(net_pairs) :
                       net_pairs[k] = <<inp.tracks[t.src], t.net>>)
    /\ [][pc = "replicate_tracks" => pc' # "error"]_vars

\* C15 witness: of a track on a foreign net and a track on a net of the
\* level, only the second is on the board, on the paired net
C15_Witness ==
    /\ pc = "done"
    /\ inp.tracks = <<"X", "N1">>
    /\ added_tracks = {[kind |-> "track", src |-> 2, net |-> "M1"]}

C25_NetPairsAreAFunction ==
    PastNetPairs =>
        \A a \in 1..Len(net_pairs), b \in 1..Len(net_pairs) :
            net_pairs[a][1] = net_pairs[b][1] => net_pairs[a][2] = net_pairs[b][2]

\* the net given to a duplicated track is the same in every order of the
\* list of net pairs
C25_TrackNetFixedByOrder ==
    \A k \in 1..Len(added) :
        added[k].kind = "track" =>
            \A a \in 1..Len(net_pairs) :
                net_pairs[a][1] = inp.tracks[added[k].src] => net_pairs[a][2] = added[k].net

\* the destination footprint that replicate_footprints places the k-th saved
\* footprint on, and the one that get_net_pairs pairs it with
placed_on(k) == chosen_dst_fp(saved_fps[k]).ref

paired_with(k) == fp_pair(saved_fps[k], footprints_to_place).ref

\* C26: when restore_layout completes, no two saved footprints were placed on
\* the same destination footprint, every destination footprint of the level
\* got a placement, and get_net_pairs paired the footprints the same way.
C26_PairingIsBijection ==
    pc = "done" =>
        /\ \A j \in 1..Len(saved_fps), k \in 1..Len(saved_fps) :
               j # k => placed_on(j) # placed_on(k)
        /\ {placed_on(k) : k \in 1..Len(saved_fps)}
               = {footprints_to_place[k].ref : k \in 1..Len(footprints_to_place)}
        /\ \A k \in 1..Len(saved_fps) : paired_with(k) = placed_on(k)

\* the two pairings agree
C26_SamePairingAsNetPairs ==
    pc = "done" => \A k \in 1..Len(saved_fps) : paired_with(k) = placed_on(k)

\* the pairing is a bijection when no two saved footprints have the same
\* fp_id
C26_PairingIsBijectionOnDistinctIds ==
    (/\ pc = "done"
     /\ \A j \in 1..Len(saved_fps), k \in 1..Len(saved_fps) :
            j # k => saved_fps[j].fp_id # saved_fps[k].fp_id)
        => /\ \A j \in 1..Len(saved_fps), k \in 1..Len(saved_fps) :
                  j # k => placed_on(j) # placed_on(k)
           /\ {placed_on(k) : k \in 1..Len(saved_fps)}
                  = {footprints_to_place[k].ref : k \in 1..Len(footprints_to_place)}

\* C29: a second restore of the same snapshot with the same destination
\* anchor leaves every destination footprint with the position, rotation and
\* side it had after the first one, the anchors on the same side or not.
C29_SecondRestoreKeepsPlacement ==
    (out # <<>> /\ pc \in {"done", "error"}) =>
        \A r \in DOMAIN fps :
            /\ fps[r].pos = out[1][r].pos
            /\ fps[r].rot = out[1][r].rot
            /\ fps[r].flipped = out[1][r].flipped

\* C29 witness: the anchors on different sides; the second restore has ended
\* and footprint 12, which the first restore moved and flipped, is where the
\* first restore put it
C29_Witness ==
    /\ out # <<>>
    /\ pc = "done"
    /\ 12 \in DOMAIN fps
    /\ saved_fps[src_anchor].flipped # fps[dst_anchor_fp.ref].flipped
    /\ placed_from[12] # 0
    /\ out[1][12].pos # inp.dst_fps[2].pos
    /\ out[1][12].flipped # inp.dst_fps[2].flipped
    /\ fps[12] = out[1][12]

\* the same with the anchors on the same side
C29_WitnessNotMirrored ==
    /\ out # <<>>
    /\ pc = "done"
    /\ 12 \in DOMAIN fps
    /\ saved_fps[src_anchor].flipped = fps[dst_anchor_fp.ref].flipped
    /\ placed_from[12] # 0
    /\ out[1][12].pos # inp.dst_fps[2].pos
    /\ out[1][12].flipped # inp.dst_fps[2].flipped
    /\ fps[12] = out[1][12]

----------------------------------------------------------------------------
(* Properties of save_layout. *)

OnLevel(fp) == Upto(fp.sheet_id, Len(inp.level)) = inp.level

NetsOf(footprints) ==
    UNION { {fp.pads[j].net : j \in 1..Len(fp.pads)} : fp \in footprints }

\* the nets that footprints of the level are on and no other footprint is
LocalNets ==
    NetsOf({fp \in Range(inp.fps) : OnLevel(fp)})
        \ NetsOf({fp \in Range(inp.fps) : ~OnLevel(fp)})

\* a track, a zone or a connected drawing
OnNet(item) ==
    item.kind \in {"track", "zone"} \/ (item.kind = "drawing" /\ item.connected)

\* the argument of save_layout that says whether items of this kind are saved
KindSaved(item) ==
    CASE item.kind = "track" -> inp.tracks
      [] item.kind = "zone" -> inp.zones
      [] item.kind = "drawing" -> inp.drawings
      [] item.kind = "text" -> inp.text

\* C16 as stated: in any save_layout call a track, zone or connected drawing
\* on a local net stays on the saved board, wherever it lies and in both modes.
C16_LocalNetItemsStay ==
    \A k \in 1..Len(inp.items) :
        (OnNet(inp.items[k]) /\ inp.items[k].net \in LocalNets)
            => inp.items[k] \in Range(board)

\* C16 amended: in a save_layout call that saves the items of its kind, a
\* track, zone or connected drawing on a local net stays on the saved board,
\* wherever it lies and in both modes.
C16_LocalNetItemsStayWhenSaved ==
    \A k \in 1..Len(inp.items) :
        (OnNet(inp.items[k]) /\ KindSaved(inp.items[k]) /\ inp.items[k].net \in LocalNets)
            => inp.items[k] \in Range(board)

\* C16 witness: of two tracks outside the bounding box, saved in containing
\* mode, the one on the local net N1 is on the saved board and the one on
\* the shared net G is not
C16_Witness ==
    /\ pc = "saved"
    /\ inp.tracks
    /\ ~inp.intersecting
    /\ LocalNets = {"N1"}
    /\ inp.items = <<Item(11, "track", "N1", TRUE, "outside"),
                     Item(12, "track", "G", TRUE, "outside")>>
    /\ inp.items[1] \in Range(out[1].layout)
    /\ inp.items[2] \notin Range(out[1].layout)

\* a drawing that the save of drawings has to drop: outside the bounding box
\* under the mode of the call, and on no local net
StrayDrawing(item) ==
    /\ item.kind = "drawing"
    /\ inp.drawings
    /\ out_of_box(item, ~inp.intersecting)
    /\ ~(item.connected /\ item.net \in LocalNets)

\* C28: when drawings are saved, a drawing outside the bounding box under the
\* mode of the call and on no local net is not in the snapshot, connected to
\* a net or not.
C28_StrayDrawingsRemoved ==
    pc = "saved" =>
        \A k \in 1..Len(inp.items) :
            StrayDrawing(inp.items[k]) => inp.items[k] \notin Range(out[1].layout)

\* the same for the drawings that are connected to a net
C28_ConnectedStrayDrawingsRemoved ==
    pc = "saved" =>
        \A k \in 1..Len(inp.items) :
            (StrayDrawing(inp.items[k]) /\ inp.items[k].connected)
                => inp.items[k] \notin Range(out[1].layout)

\* the save is over: save_layout has returned or raised, or was never called
SaveOver == pc \in {"saved", "error", "abandoned"}

\* C23: on every path out of the save (save_layout returned, save_layout
\* raised, save_layout never called) the temporary board file is gone.
C23_TempFileDeleted ==
    SaveOver => ~temp_file

\* the same for the path on which save_layout returns
C23_TempFileDeletedOnReturn ==
    pc = "saved" => ~temp_file

\* C24: the board passed to SaveLayout keeps its items whatever save_layout
\* removes, when it returns and when it raises.
C24_HostBoardUnchanged ==
    host_board = loaded_board

\* C24 witness: save_layout has returned, items were removed from its copy
\* of the board, and the board passed in has them all
C24_Witness ==
    /\ pc = "saved"
    /\ Len(board) < Len(loaded_board)
    /\ \E k \in 1..Len(inp.items) : inp.items[k] \notin Range(board)
    /\ host_board = loaded_board

\* the same when save_layout has raised
C24_WitnessRaised ==
    /\ pc = "error"
    /\ temp_file
    /\ host_board = loaded_board

----------------------------------------------------------------------------
(* Properties of the Run action. *)

Made(name) == \E k \in 1..Len(out) : out[k].call = name /\ out[k].raised = ""

Started(name) == \E k \in 1..Len(out) : out[k].call = name

\* C30: with exactly one footprint selected, Restore chosen and a layout file
\* picked, a RestoreLayout is constructed for the board and the selected
\* footprint and restore_layout is called on the file; with another number
\* of selected footprints no save and no restore is started.
C30_RunStartsRestore ==
    pc = "returned" =>
        /\ (/\ Len(inp.selected_footprints) = 1
            /\ inp.res = "RESTORE"
            /\ inp.file_ok
            /\ ~inp.constructor_raises)
               => Made("RestoreLayout") /\ Started("restore_layout")
        /\ Len(inp.selected_footprints) # 1
               => \A k \in 1..Len(out) : out[k].call = "MessageDialog"

\* the second half: with another number of selected footprints no save and
\* no restore is started
C30_NothingStartedWithoutOneFootprint ==
    (pc = "returned" /\ Len(inp.selected_footprints) # 1)
        => \A k \in 1..Len(out) : out[k].call = "MessageDialog"

----------------------------------------------------------------------------
(* Properties of get_sch_hash. *)

\* the line that position k of the file is on
line_at(f, k) == Split(f)[1 + Cardinality({j \in 1..(k - 1) : f[j] = NL})]

OnReferenceLine(f, k) == "R" \in Range(line_at(f, k))

\* the positions of a file outside its instances blocks: the file read from
\* the left, each block skipped from its start to its closing parenthesis
RECURSIVE outside_blocks(_, _)
outside_blocks(f, k) ==
    IF k > Len(f) THEN {}
    ELSE IF f[k] = "I"
         THEN LET end == instance_end_of(f, k - 1)
              IN  IF end = -1 THEN {} ELSE outside_blocks(f, end + 1)
         ELSE {k} \cup outside_blocks(f, k + 1)

\* C17: two files that differ only in a value on a line that holds
\* (property "Reference" give the same fingerprint.
C17_ReferenceValueIgnored ==
    (/\ pc = "hash_done"
     /\ inp.edit.kind = "replace"
     /\ OnReferenceLine(inp.file, inp.edit.at))
        => out[1] = out[2]

\* C17 witness: a file with a Reference line and a content line, the value
\* of the Reference changed, both hashed to the digest of the content line
C17_Witness ==
    /\ pc = "hash_done"
    /\ inp.file = <<"R", "a", NL, "b", "a", NL>>
    /\ inp.edit = Edit("replace", 2, "b", 0, 0)
    /\ ~out[1].raised
    /\ out[1].md5hash = get_sch_hash(Plain, <<>>) \o << <<"b", "a">> >>
    /\ out[2] = out[1]

\* the edit changes a character that is on no Reference line and in no
\* instances block, of a file that get_sch_hash accepts
ContentEdit ==
    /\ inp.edit.kind = "replace"
    /\ ~hash_raises(inp.file)
    /\ ~OnReferenceLine(inp.file, inp.edit.at)
    /\ inp.edit.at \in outside_blocks(inp.file, 1)

\* C18: a change of a character that is no whitespace, on no Reference line
\* and in no instances block changes the sorted digests of the lines, the
\* last character of the file included.
C18_ContentChangeSeen ==
    (pc = "hash_done" /\ ContentEdit) => out[1] # out[2]

\* the same for the characters before the last one of the text that is left
\* when the Reference lines are dropped
C18_ContentChangeSeenBeforeLast ==
    (/\ pc = "hash_done"
     /\ ContentEdit
     /\ \/ EndsWithNewline(without_references(inp.file))
        \/ /\ inp.edit.at < Len(inp.file)
           /\ ~OnReferenceLine(inp.file, Len(inp.file)))
        => out[1] # out[2]

\* the multiset of the lines of the file that are not blank, on the text
\* without its Reference lines and instances blocks, nothing else left out
stripped_content(f) ==
    LET string == without_references(f)
        kept == outside_blocks(string, 1)
        text == SelectSeq([k \in 1..Len(string) |-> <<k, string[k]>>],
                          LAMBDA c : c[1] \in kept)
    IN  SelectSeq(Split([k \in 1..Len(text) |-> text[k][2]]),
                  LAMBDA line : \E k \in 1..Len(line) : line[k] # " ")

SameBag(s, t) ==
    /\ Len(s) = Len(t)
    /\ \A x \in Range(s) \cup Range(t) :
           Cardinality({k \in 1..Len(s) : s[k] = x}) = Cardinality({k \in 1..Len(t) : t[k] = x})

\* two lines are swapped, both files are accepted and have the same stripped
\* content
Reordering ==
    /\ inp.edit.kind = "swap"
    /\ ~hash_raises(inp.file)
    /\ ~hash_raises(edited(inp.file, inp.edit))
    /\ SameBag(stripped_content(inp.file), stripped_content(edited(inp.file, inp.edit)))

\* C19: a permutation of the lines of a file that leaves its stripped
\* content unchanged leaves the fingerprint unchanged, whether the file ends
\* with a newline or not.
C19_LineOrderIgnored ==
    (pc = "hash_done" /\ Reordering) => out[1] = out[2]

\* the starts of the instances blocks that lie in no other block
RECURSIVE outer_starts(_, _)
outer_starts(f, k) ==
    IF k > Len(f) THEN {}
    ELSE IF f[k] = "I"
         THEN LET end == instance_end_of(f, k - 1)
              IN  {k} \cup (IF end = -1 THEN {} ELSE outer_starts(f, end + 1))
         ELSE outer_starts(f, k + 1)

\* no instances block of the file starts inside another one
NotNested(f) ==
    LET string == without_references(f)
    IN  {k \in 1..Len(string) : string[k] = "I"} = outer_starts(string, 1)

\* the same for the files that end with a newline and have no instances
\* block inside another one
C19_LineOrderIgnoredWithNewline ==
    (/\ pc = "hash_done"
     /\ Reordering
     /\ EndsWithNewline(inp.file)
     /\ NotNested(inp.file)
     /\ NotNested(edited(inp.file, inp.edit)))
        => out[1] = out[2]

----------------------------------------------------------------------------
(* Properties of save_layout followed by restore_layout. *)

\* the destination project has the files of the source project, byte by byte
SameFiles == inp.files = inp.saved_from.files

\* C20: a snapshot saved at a level restores without a fingerprint mismatch
\* onto a destination whose anchor's chain holds the file of the level and
\* whose files are those of the source, whichever footprints were the
\* anchors and whether the destination hierarchy is shallower or deeper.
C20_NoMismatchOnSameFiles ==
    Raised("ValueError: hash") => ~SameFiles

\* the same when restore_layout hashes the files that save_layout hashed
C20_NoMismatchOnSameFileList ==
    Raised("ValueError: hash") =>
        \/ ~SameFiles
        \/ list_of_sheet_files # inp.saved_from.list_of_sheet_files

\* the edit changes a character inside an instances block and leaves the
\* blocks of the file where they are; both files are accepted
BlockEdit ==
    LET f == without_references(inp.file)
        g == without_references(edited(inp.file, inp.edit))
    IN  /\ inp.edit.kind = "replace"
        /\ ~hash_raises(inp.file)
        /\ ~hash_raises(edited(inp.file, inp.edit))
        /\ ~OnReferenceLine(inp.file, inp.edit.at)
        /\ outside_blocks(f, 1) = outside_blocks(g, 1)
        /\ \A k \in outside_blocks(f, 1) : f[k] = g[k]

\* C27: two files that differ only inside instances blocks have the same
\* fingerprint, also when a block lies inside another one or two blocks are
\* adjacent.
C27_BlockContentIgnored ==
    (pc = "hash_done" /\ BlockEdit) => out[1] = out[2]

\* the same for the files with no instances block inside another one
C27_BlockContentIgnoredNotNested ==
    (pc = "hash_done" /\ BlockEdit /\ NotNested(inp.file)) => out[1] = out[2]

====
